---- MODULE Spec2Model ----
(***************************************************************************)
(* Model of dalec-mapping: the instruction model builder                   *)
(* (parser.ParseDockerfile), the transformation engine                     *)
(* (transformer.TransformToDalec) and the revision reconciler              *)
(* (transformer.rebuild).                                                  *)
(*                                                                         *)
(* Go strings are TLA+ strings; Len, \o and SubSeq are the only primitive  *)
(* string operations used, every library call (strings.*, filepath.*,      *)
(* strconv.Atoi, fmt.Sprintf) is computed character by character.          *)
(* Go maps are functions whose DOMAIN is the key set; the empty map and    *)
(* the empty (or nil) slice are <<>>.                                      *)
(***************************************************************************)
EXTENDS Integers, Sequences, FiniteSets, TLC

(***************************************************************************)
(* Bounds of the model.                                                    *)
(***************************************************************************)
\* number of instruction nodes one parse processes
MaxNodes == 3
\* number of stage snippets a transformed build file is made of
MaxStages == 2
\* length of the enumerated previous-revision strings
MaxRevLen == 2

(***************************************************************************)
(* strings                                                                 *)
(***************************************************************************)
UpperLetters == "ABCDEFGHIJKLMNOPQRSTUVWXYZ"
LowerLetters == "abcdefghijklmnopqrstuvwxyz"
DecimalDigits == "0123456789"

CharAt(s, i) == SubSeq(s, i, i)

\* 0 when c is no character of alphabet, its 1-based position otherwise
IndexIn(alphabet, c) ==
    IF \E i \in 1..Len(alphabet) : CharAt(alphabet, i) = c
    THEN CHOOSE i \in 1..Len(alphabet) : CharAt(alphabet, i) = c
    ELSE 0

RECURSIVE MapChars(_, _, _)
MapChars(s, from, to) ==
    IF s = "" THEN ""
    ELSE LET c == CharAt(s, 1)
             k == IndexIn(from, c)
         IN (IF k = 0 THEN c ELSE CharAt(to, k)) \o MapChars(SubSeq(s, 2, Len(s)), from, to)

\* strings.ToLower, strings.ToUpper (ASCII)
ToLower(s) == MapChars(s, UpperLetters, LowerLetters)
ToUpper(s) == MapChars(s, LowerLetters, UpperLetters)

\* strings.HasPrefix, strings.HasSuffix
HasPrefix(s, p) == Len(p) <= Len(s) /\ SubSeq(s, 1, Len(p)) = p
HasSuffix(s, x) == Len(x) <= Len(s) /\ SubSeq(s, Len(s) - Len(x) + 1, Len(s)) = x

\* strings.TrimPrefix, strings.TrimSuffix
TrimPrefix(s, p) == IF HasPrefix(s, p) THEN SubSeq(s, Len(p) + 1, Len(s)) ELSE s
TrimSuffix(s, x) == IF HasSuffix(s, x) THEN SubSeq(s, 1, Len(s) - Len(x)) ELSE s

\* strings.Index + 1: the first position where sub occurs in s, 0 when none
IndexOf(s, sub) ==
    LET at == {i \in 1..(Len(s) - Len(sub) + 1) : SubSeq(s, i, i + Len(sub) - 1) = sub}
    IN IF at = {} THEN 0 ELSE CHOOSE i \in at : \A j \in at : i <= j

\* strings.Contains
Contains(s, sub) == \E i \in 1..(Len(s) - Len(sub) + 1) : SubSeq(s, i, i + Len(sub) - 1) = sub

\* strings.Join
RECURSIVE Join(_, _)
Join(parts, sep) ==
    IF Len(parts) = 0 THEN ""
    ELSE IF Len(parts) = 1 THEN parts[1]
    ELSE parts[1] \o sep \o Join(Tail(parts), sep)

\* strings.SplitN(s, sep, 2)
SplitN2(s, sep) ==
    LET i == IndexOf(s, sep)
    IN IF i = 0 THEN <<s>>
       ELSE <<SubSeq(s, 1, i - 1), SubSeq(s, i + Len(sep), Len(s))>>

\* strings.Trim(s, cutset) for a one-character cutset
RECURSIVE TrimLeft(_, _)
TrimLeft(s, c) ==
    IF s # "" /\ CharAt(s, 1) = c THEN TrimLeft(SubSeq(s, 2, Len(s)), c) ELSE s

RECURSIVE TrimRight(_, _)
TrimRight(s, c) ==
    IF s # "" /\ CharAt(s, Len(s)) = c THEN TrimRight(SubSeq(s, 1, Len(s) - 1), c) ELSE s

Trim(s, c) == TrimRight(TrimLeft(s, c), c)

\* strings.Split(s, "/")
RECURSIVE SplitSlash(_)
SplitSlash(s) ==
    LET i == IndexOf(s, "/")
    IN IF i = 0 THEN <<s>>
       ELSE <<SubSeq(s, 1, i - 1)>> \o SplitSlash(SubSeq(s, i + 1, Len(s)))

\* the index of the last "/" of s, 0 when there is none
LastSlash(s) ==
    LET at == {i \in 1..Len(s) : CharAt(s, i) = "/"}
    IN IF at = {} THEN 0 ELSE CHOOSE i \in at : \A j \in at : j <= i

\* filepath.Base (Unix)
Base(path) ==
    IF path = "" THEN "."
    ELSE LET p == TrimRight(path, "/")
         IN IF p = "" THEN "/" ELSE SubSeq(p, LastSlash(p) + 1, Len(p))

\* filepath.Clean (Unix): the lexical processing of the path elements
RECURSIVE CleanElems(_, _, _)
CleanElems(elems, out, rooted) ==
    IF Len(elems) = 0 THEN out
    ELSE LET e == Head(elems)
             rest == Tail(elems)
         IN IF e = "" \/ e = "." THEN CleanElems(rest, out, rooted)
            ELSE IF e = ".."
                 THEN IF Len(out) > 0 /\ out[Len(out)] # ".."
                      THEN CleanElems(rest, SubSeq(out, 1, Len(out) - 1), rooted)
                      ELSE IF rooted THEN CleanElems(rest, out, rooted)
                           ELSE CleanElems(rest, Append(out, ".."), rooted)
                 ELSE CleanElems(rest, Append(out, e), rooted)

Clean(path) ==
    IF path = "" THEN "."
    ELSE LET rooted == CharAt(path, 1) = "/"
             body == Join(CleanElems(SplitSlash(path), <<>>, rooted), "/")
         IN IF rooted THEN "/" \o body
            ELSE IF body = "" THEN "." ELSE body

\* filepath.Join(a, b)
PathJoin(a, b) ==
    IF a = "" /\ b = "" THEN ""
    ELSE IF a = "" THEN Clean(b)
    ELSE IF b = "" THEN Clean(a)
    ELSE Clean(a \o "/" \o b)

(***************************************************************************)
(* maps                                                                    *)
(***************************************************************************)
EmptyMap == <<>>

\* m[k] = v
Put(m, k, v) == [x \in (DOMAIN m) \cup {k} |-> IF x = k THEN v ELSE m[x]]

\* val, exists := m[k]
Has(m, k) == k \in DOMAIN m

(***************************************************************************)
(* parser: instruction nodes                                               *)
(*                                                                         *)
(* A node of the syntax tree is [Value, Flags, Next, json]: the            *)
(* instruction name, the flag list, the argument chain (node.Next and its  *)
(* successors) and node.Attributes["json"].                                *)
(***************************************************************************)
Node(value, flags, next, json) ==
    [Value |-> value, Flags |-> flags, Next |-> next, json |-> json]

\* reconstructCommand joins node values back into a single command string
reconstructCommand(next) == Join(next, " ")

\* parseKeyValue extracts key=value or key value pairs: <<key, value>>
parseKeyValue(next) ==
    IF Len(next) = 0 THEN <<"", "">>
    ELSE LET fullValue == reconstructCommand(next)
         IN IF Contains(fullValue, "=")
            THEN LET parts == SplitN2(fullValue, "=") IN <<parts[1], parts[2]>>
            ELSE LET parts == SplitN2(fullValue, " ")
                 IN IF Len(parts) = 2 THEN <<parts[1], parts[2]>>
                    ELSE <<fullValue, "">>

\* the value of the last flag of flags that starts with prefix, else dflt
RECURSIVE FlagValue(_, _, _)
FlagValue(flags, prefix, dflt) ==
    IF Len(flags) = 0 THEN dflt
    ELSE LET flag == Head(flags)
         IN FlagValue(Tail(flags), prefix,
                      IF HasPrefix(flag, prefix) THEN TrimPrefix(flag, prefix) ELSE dflt)

\* parseFromInstruction matching the AS keyword case-sensitively
parseFromInstructionExactAS(node) ==
    [Name       |-> IF Len(node.Next) >= 3 /\ node.Next[2] = "AS"
                    THEN node.Next[3] ELSE "",
     From       |-> IF Len(node.Next) >= 1 THEN node.Next[1] ELSE "",
     Platform   |-> FlagValue(node.Flags, "--platform=", ""),
     Args       |-> EmptyMap,
     Env        |-> EmptyMap,
     Workdir    |-> "",
     Runs       |-> <<>>,
     Copies     |-> <<>>,
     Entrypoint |-> <<>>,
     Cmd        |-> <<>>,
     Expose     |-> <<>>]

\* parseFromInstruction extracts information from a FROM instruction
parseFromInstruction(node) ==
    [Name       |-> IF Len(node.Next) >= 3 /\ ToUpper(node.Next[2]) = "AS"
                    THEN node.Next[3] ELSE "",
     From       |-> IF Len(node.Next) >= 1 THEN node.Next[1] ELSE "",
     Platform   |-> FlagValue(node.Flags, "--platform=", ""),
     Args       |-> EmptyMap,
     Env        |-> EmptyMap,
     Workdir    |-> "",
     Runs       |-> <<>>,
     Copies     |-> <<>>,
     Entrypoint |-> <<>>,
     Cmd        |-> <<>>,
     Expose     |-> <<>>]

\* parseCopyInstruction taking the first argument as the destination
parseCopyInstructionFirstDest(node, instType) ==
    LET args == node.Next
    IN [Type   |-> instType,
        From   |-> FlagValue(node.Flags, "--from=", ""),
        Source |-> IF Len(args) > 0 THEN Tail(args) ELSE <<>>,
        Dest   |-> IF Len(args) > 0 THEN args[1] ELSE ""]

\* parseCopyInstruction keeping the destination among the sources
parseCopyInstructionAllSources(node, instType) ==
    LET args == node.Next
    IN [Type   |-> instType,
        From   |-> FlagValue(node.Flags, "--from=", ""),
        Source |-> args,
        Dest   |-> IF Len(args) > 0 THEN args[Len(args)] ELSE ""]

\* parseCopyInstruction extracts COPY/ADD instruction details
parseCopyInstruction(node, instType) ==
    LET args == node.Next
    IN [Type   |-> instType,
        From   |-> FlagValue(node.Flags, "--from=", ""),
        Source |-> IF Len(args) > 0 THEN SubSeq(args, 1, Len(args) - 1) ELSE <<>>,
        Dest   |-> IF Len(args) > 0 THEN args[Len(args)] ELSE ""]

\* parseCommandArray wrapping every command in a shell
parseCommandArrayAlwaysShell(node) ==
    LET cmd == reconstructCommand(node.Next)
    IN IF cmd # "" THEN <<"/bin/sh", "-c", cmd>> ELSE <<>>

\* parseCommandArray handles both JSON and shell format commands
parseCommandArray(node) ==
    IF node.json THEN node.Next
    ELSE LET cmd == reconstructCommand(node.Next)
         IN IF cmd # "" THEN <<"/bin/sh", "-c", cmd>> ELSE <<>>

(***************************************************************************)
(* parser: the walk of ParseDockerfile                                     *)
(*                                                                         *)
(* The builder state is [info, currentStage]: info is the DockerfileInfo   *)
(* under construction, currentStage is the index in info.Stages of the     *)
(* stage the pointer currentStage refers to, 0 for the nil pointer.        *)
(***************************************************************************)
NewInfo == [Stages |-> <<>>, Args |-> EmptyMap, Labels |-> EmptyMap]

NewBuilder == [info |-> NewInfo, currentStage |-> 0]

\* currentStage.<field> = value
SetStageField(b, field, value) ==
    [b EXCEPT !.info.Stages[b.currentStage] = [@ EXCEPT ![field] = value]]

CurrentStage(b) == b.info.Stages[b.currentStage]

\* case "FROM" pointing currentStage at the first element of the slice
caseFROMFirstStage(b, node) ==
    LET stages == Append(b.info.Stages, parseFromInstruction(node))
    IN [info |-> [b.info EXCEPT !.Stages = stages], currentStage |-> 1]

\* case "FROM" putting the new stage in front of the others
caseFROMPrepend(b, node) ==
    LET stages == <<parseFromInstruction(node)>> \o b.info.Stages
    IN [info |-> [b.info EXCEPT !.Stages = stages], currentStage |-> 1]

caseFROM(b, node) ==
    LET stages == Append(b.info.Stages, parseFromInstruction(node))
    IN [info |-> [b.info EXCEPT !.Stages = stages], currentStage |-> Len(stages)]

\* case "ARG" keeping the first declaration of a key
caseARGKeepFirst(b, node) ==
    LET kv == parseKeyValue(node.Next)
        g  == IF Has(b.info.Args, kv[1]) THEN b
              ELSE [b EXCEPT !.info.Args = Put(@, kv[1], kv[2])]
    IN IF b.currentStage # 0 /\ ~Has(CurrentStage(g).Args, kv[1])
       THEN SetStageField(g, "Args", Put(CurrentStage(g).Args, kv[1], kv[2]))
       ELSE g

caseARG(b, node) ==
    LET kv == parseKeyValue(node.Next)
        g  == [b EXCEPT !.info.Args = Put(@, kv[1], kv[2])]
    IN IF b.currentStage # 0
       THEN SetStageField(g, "Args", Put(CurrentStage(g).Args, kv[1], kv[2]))
       ELSE g

\* case "ENV" writing the pair into the global arguments as well
caseENVGlobal(b, node) ==
    LET kv == parseKeyValue(node.Next)
        g  == [b EXCEPT !.info.Args = Put(@, kv[1], kv[2])]
    IN IF b.currentStage # 0
       THEN SetStageField(g, "Env", Put(CurrentStage(g).Env, kv[1], kv[2]))
       ELSE g

caseENV(b, node) ==
    IF b.currentStage # 0
    THEN LET kv == parseKeyValue(node.Next)
         IN SetStageField(b, "Env", Put(CurrentStage(b).Env, kv[1], kv[2]))
    ELSE b

caseWORKDIR(b, node) ==
    IF b.currentStage # 0 /\ Len(node.Next) > 0
    THEN SetStageField(b, "Workdir", node.Next[1])
    ELSE b

caseRUN(b, node) ==
    IF b.currentStage # 0
    THEN SetStageField(b, "Runs", Append(CurrentStage(b).Runs, reconstructCommand(node.Next)))
    ELSE b

caseCOPY(b, node, instruction) ==
    IF b.currentStage # 0
    THEN SetStageField(b, "Copies",
                       Append(CurrentStage(b).Copies, parseCopyInstruction(node, instruction)))
    ELSE b

caseENTRYPOINT(b, node) ==
    IF b.currentStage # 0
    THEN SetStageField(b, "Entrypoint", parseCommandArray(node))
    ELSE b

caseCMD(b, node) ==
    IF b.currentStage # 0
    THEN SetStageField(b, "Cmd", parseCommandArray(node))
    ELSE b

caseEXPOSE(b, node) ==
    IF b.currentStage # 0 /\ Len(node.Next) > 0
    THEN SetStageField(b, "Expose", Append(CurrentStage(b).Expose, node.Next[1]))
    ELSE b

caseLABEL(b, node) ==
    LET kv == parseKeyValue(node.Next)
    IN [b EXCEPT !.info.Labels = Put(@, kv[1], Trim(kv[2], "\""))]

Recognized ==
    {"FROM", "ARG", "ENV", "WORKDIR", "RUN", "COPY", "ADD",
     "ENTRYPOINT", "CMD", "EXPOSE", "LABEL"}

\* one iteration of the loop, dispatching on the name as it is written
ParseNodeExactCase(b, node) ==
    LET instruction == node.Value
    IN CASE instruction = "FROM"               -> caseFROM(b, node)
         [] instruction = "ARG"                -> caseARG(b, node)
         [] instruction = "ENV"                -> caseENV(b, node)
         [] instruction = "WORKDIR"            -> caseWORKDIR(b, node)
         [] instruction = "RUN"                -> caseRUN(b, node)
         [] instruction \in {"COPY", "ADD"}    -> caseCOPY(b, node, instruction)
         [] instruction = "ENTRYPOINT"         -> caseENTRYPOINT(b, node)
         [] instruction = "CMD"                -> caseCMD(b, node)
         [] instruction = "EXPOSE"             -> caseEXPOSE(b, node)
         [] instruction = "LABEL"              -> caseLABEL(b, node)
         [] OTHER                              -> b

\* one iteration of the loop over result.AST.Children
ParseNode(b, node) ==
    LET instruction == ToUpper(node.Value)
    IN CASE instruction = "FROM"               -> caseFROM(b, node)
         [] instruction = "ARG"                -> caseARG(b, node)
         [] instruction = "ENV"                -> caseENV(b, node)
         [] instruction = "WORKDIR"            -> caseWORKDIR(b, node)
         [] instruction = "RUN"                -> caseRUN(b, node)
         [] instruction \in {"COPY", "ADD"}    -> caseCOPY(b, node, instruction)
         [] instruction = "ENTRYPOINT"         -> caseENTRYPOINT(b, node)
         [] instruction = "CMD"                -> caseCMD(b, node)
         [] instruction = "EXPOSE"             -> caseEXPOSE(b, node)
         [] instruction = "LABEL"              -> caseLABEL(b, node)
         [] OTHER                              -> b

\* the whole loop, over a given list of nodes
RECURSIVE ParseNodes(_, _)
ParseNodes(b, nodes) ==
    IF Len(nodes) = 0 THEN b ELSE ParseNodes(ParseNode(b, Head(nodes)), Tail(nodes))

\* ParseDockerfile applied to a successfully parsed syntax tree
ParseDockerfile(nodes) == ParseNodes(NewBuilder, nodes).info


(***************************************************************************)
(* pointers: the nil pointer is <<>>, a pointer to v is <<v>>              *)
(***************************************************************************)
Nil == <<>>
Ptr(v) == <<v>>
Deref(p) == p[1]

(***************************************************************************)
(* sequences                                                               *)
(***************************************************************************)
RECURSIVE ConcatAll(_)
ConcatAll(ss) == IF Len(ss) = 0 THEN <<>> ELSE Head(ss) \o ConcatAll(Tail(ss))

ReverseSeq(s) == [i \in 1..Len(s) |-> s[Len(s) + 1 - i]]

\* m[kv[1]] = kv[2] for every pair kv of pairs, in order
RECURSIVE PutAll(_, _)
PutAll(m, pairs) ==
    IF Len(pairs) = 0 THEN m
    ELSE PutAll(Put(m, Head(pairs)[1], Head(pairs)[2]), Tail(pairs))

(***************************************************************************)
(* strconv.Atoi and fmt.Sprintf("%d"), on an int of intSize bits.          *)
(* An int is [neg, mag]: its sign and the decimal digits of its magnitude  *)
(* without leading zeros, so that 64-bit values are exact.                 *)
(***************************************************************************)
IsDigits(s) == s # "" /\ \A i \in 1..Len(s) : IndexIn(DecimalDigits, CharAt(s, i)) # 0

\* drop leading zeros, keeping one digit
RECURSIVE Normalize(_)
Normalize(d) == IF Len(d) > 1 /\ CharAt(d, 1) = "0" THEN Normalize(SubSeq(d, 2, Len(d))) ELSE d

DigitVal(c) == IndexIn(DecimalDigits, c) - 1
DigitChar(v) == CharAt(DecimalDigits, v + 1)

\* a <= b for normalized digit strings
RECURSIVE LexLeq(_, _)
LexLeq(a, b) ==
    IF a = "" THEN TRUE
    ELSE IF DigitVal(CharAt(a, 1)) # DigitVal(CharAt(b, 1))
         THEN DigitVal(CharAt(a, 1)) < DigitVal(CharAt(b, 1))
         ELSE LexLeq(SubSeq(a, 2, Len(a)), SubSeq(b, 2, Len(b)))

MagLeq(a, b) == Len(a) < Len(b) \/ (Len(a) = Len(b) /\ LexLeq(a, b))

\* d + 1 and d - 1 (d >= 1) on digit strings
RECURSIVE DecSucc(_)
DecSucc(d) ==
    IF d = "" THEN "1"
    ELSE LET last == DigitVal(CharAt(d, Len(d)))
             front == SubSeq(d, 1, Len(d) - 1)
         IN IF last < 9 THEN front \o DigitChar(last + 1) ELSE DecSucc(front) \o "0"

RECURSIVE DecPred(_)
DecPred(d) ==
    LET last == DigitVal(CharAt(d, Len(d)))
        front == SubSeq(d, 1, Len(d) - 1)
    IN IF last > 0 THEN front \o DigitChar(last - 1) ELSE DecPred(front) \o "9"

\* math.MaxInt and -math.MinInt
MaxIntMag(intSize) == IF intSize = 32 THEN "2147483647" ELSE "9223372036854775807"
MinIntMag(intSize) == DecSucc(MaxIntMag(intSize))

\* strconv.Atoi: [err, neg, mag]
Atoi(s, intSize) ==
    LET signed == s # "" /\ CharAt(s, 1) \in {"+", "-"}
        body == IF signed THEN SubSeq(s, 2, Len(s)) ELSE s
        neg == signed /\ CharAt(s, 1) = "-"
        mag == Normalize(body)
    IN IF ~IsDigits(body) THEN [err |-> TRUE, neg |-> FALSE, mag |-> "0"]
       ELSE IF ~MagLeq(mag, IF neg THEN MinIntMag(intSize) ELSE MaxIntMag(intSize))
            THEN [err |-> TRUE, neg |-> neg, mag |-> mag]
            ELSE [err |-> FALSE, neg |-> neg /\ mag # "0", mag |-> mag]

\* n + 1 in intSize-bit two's complement
IntAddOne(n, intSize) ==
    IF n.neg
    THEN LET m == Normalize(DecPred(n.mag)) IN [neg |-> m # "0", mag |-> m]
    ELSE IF n.mag = MaxIntMag(intSize)
         THEN [neg |-> TRUE, mag |-> MinIntMag(intSize)]
         ELSE [neg |-> FALSE, mag |-> DecSucc(n.mag)]

\* fmt.Sprintf("%d", n)
SprintfD(n) == (IF n.neg THEN "-" ELSE "") \o n.mag

(***************************************************************************)
(* transformer: the revision reconciler                                    *)
(*                                                                         *)
(* rebuild receives previousSpec by value; the result records, besides the *)
(* returned flag, the value its local previousSpec.Revision holds when it  *)
(* returns, and whether it panicked on the nil metadata pointer.           *)
(***************************************************************************)
\* rebuild with the comparison of the commits inverted
rebuildInverted(repoInfo, previousSpec, intSize) ==
    IF previousSpec.Commit = ""
    THEN [panic |-> FALSE, ret |-> FALSE, Revision |-> previousSpec.Revision]
    ELSE IF repoInfo = Nil
    THEN [panic |-> TRUE, ret |-> FALSE, Revision |-> previousSpec.Revision]
    ELSE IF previousSpec.Commit # Deref(repoInfo).Commit
    THEN LET prevRevision == Atoi(previousSpec.Revision, intSize)
         IN IF prevRevision.err
            THEN [panic |-> FALSE, ret |-> FALSE, Revision |-> previousSpec.Revision]
            ELSE [panic |-> FALSE, ret |-> FALSE,
                  Revision |-> SprintfD(IntAddOne(prevRevision, intSize))]
    ELSE [panic |-> FALSE, ret |-> TRUE, Revision |-> previousSpec.Revision]

\* rebuild resetting an invalid revision and going on to the increment
rebuildResetToOne(repoInfo, previousSpec, intSize) ==
    IF previousSpec.Commit = ""
    THEN [panic |-> FALSE, ret |-> FALSE, Revision |-> previousSpec.Revision]
    ELSE IF repoInfo = Nil
    THEN [panic |-> TRUE, ret |-> FALSE, Revision |-> previousSpec.Revision]
    ELSE IF previousSpec.Commit = Deref(repoInfo).Commit
    THEN LET parsed == Atoi(previousSpec.Revision, intSize)
             prevRevision == IF parsed.err THEN [neg |-> FALSE, mag |-> "0"] ELSE parsed
         IN [panic |-> FALSE, ret |-> FALSE,
             Revision |-> SprintfD(IntAddOne(prevRevision, intSize))]
    ELSE [panic |-> FALSE, ret |-> TRUE, Revision |-> previousSpec.Revision]

rebuild(repoInfo, previousSpec, intSize) ==
    IF previousSpec.Commit = ""
    THEN [panic |-> FALSE, ret |-> FALSE, Revision |-> previousSpec.Revision]
    ELSE IF repoInfo = Nil
    THEN [panic |-> TRUE, ret |-> FALSE, Revision |-> previousSpec.Revision]
    ELSE IF previousSpec.Commit = Deref(repoInfo).Commit
    THEN LET prevRevision == Atoi(previousSpec.Revision, intSize)
         IN IF prevRevision.err
            THEN [panic |-> FALSE, ret |-> FALSE, Revision |-> previousSpec.Revision]
            ELSE [panic |-> FALSE, ret |-> FALSE,
                  Revision |-> SprintfD(IntAddOne(prevRevision, intSize))]
    ELSE [panic |-> FALSE, ret |-> TRUE, Revision |-> previousSpec.Revision]

(***************************************************************************)
(* transformer: stage classification helpers                               *)
(***************************************************************************)
isBuilderStage(stage) ==
    LET name == ToLower(stage.Name)
    IN name = "builder" \/ Contains(name, "build")

\* hasGoModules looking for "go build" only
hasGoModulesBuildOnly(stage) ==
    \E i \in 1..Len(stage.Runs) : Contains(stage.Runs[i], "go build")

hasGoModules(stage) ==
    \E i \in 1..Len(stage.Runs) :
        Contains(stage.Runs[i], "go build") \/ Contains(stage.Runs[i], "go mod")

deriveSourceName(stage) ==
    IF stage.Workdir # ""
       /\ Base(stage.Workdir) # "" /\ Base(stage.Workdir) # "/" /\ Base(stage.Workdir) # "."
    THEN Base(stage.Workdir)
    ELSE "source"

\* the indices of the builder stages, in declaration order
BuilderIndices(info) ==
    SelectSeq([i \in 1..Len(info.Stages) |-> i], LAMBDA i : isBuilderStage(info.Stages[i]))

findBuilderStageName(info) ==
    LET named == SelectSeq(BuilderIndices(info), LAMBDA i : info.Stages[i].Name # "")
    IN IF Len(named) > 0 THEN info.Stages[named[1]].Name ELSE "builder"

getArgValueOrDefault(dockerInfo, key, defaultValue) ==
    IF dockerInfo = Nil THEN defaultValue
    ELSE IF Has(Deref(dockerInfo).Args, key) /\ Deref(dockerInfo).Args[key] # ""
         THEN Deref(dockerInfo).Args[key]
         ELSE defaultValue


(***************************************************************************)
(* transformer: the sections of the specification                          *)
(***************************************************************************)
populateArgs(repoMeta, dockerInfo) ==
    IF dockerInfo = Nil
    THEN [REVISION |-> "1", VERSION |-> "0.1", COMMIT |-> "",
          TARGETARCH |-> "", TARGETOS |-> ""]
    ELSE LET commitValue == IF repoMeta # Nil /\ Deref(repoMeta).Commit # ""
                            THEN Deref(repoMeta).Commit ELSE ""
         IN [REVISION   |-> getArgValueOrDefault(dockerInfo, "REVISION", "1"),
             VERSION    |-> getArgValueOrDefault(dockerInfo, "VERSION", "0.1"),
             COMMIT     |-> getArgValueOrDefault(dockerInfo, "COMMIT", commitValue),
             TARGETARCH |-> getArgValueOrDefault(dockerInfo, "TARGETARCH", ""),
             TARGETOS   |-> getArgValueOrDefault(dockerInfo, "TARGETOS", "")]

\* the keys populateMetadata writes into spec
populateMetadata(repoMeta) ==
    [packager    |-> "Azure Container Upstream",
     vendor      |-> "Microsoft Corporation",
     license     |-> IF repoMeta # Nil /\ Deref(repoMeta).License # ""
                     THEN Deref(repoMeta).License ELSE "",
     website     |-> IF repoMeta # Nil /\ Deref(repoMeta).Website # ""
                     THEN Deref(repoMeta).Website ELSE "",
     description |-> IF repoMeta # Nil /\ Deref(repoMeta).Description # ""
                     THEN Deref(repoMeta).Description ELSE "",
     version     |-> "${VERSION}",
     revision    |-> "${REVISION}"]

\* the names the second loop of derivePackageName meets, in scan order
binaryNames(stages) ==
    LET ofCopy(copy) ==
            IF copy.From = "builder"
            THEN SelectSeq([k \in 1..Len(copy.Source) |->
                               IF Contains(copy.Source[k], "/bin/")
                               THEN TrimSuffix(Base(copy.Source[k]), ".exe") ELSE ""],
                           LAMBDA name : name # "")
            ELSE <<>>
        ofStage(stage) == ConcatAll([j \in 1..Len(stage.Copies) |-> ofCopy(stage.Copies[j])])
    IN ConcatAll([i \in 1..Len(stages) |-> ofStage(ReverseSeq(stages)[i])])

\* derivePackageName scanning the stage names in declaration order
derivePackageNameForward(dockerInfo) ==
    IF dockerInfo = Nil \/ Len(Deref(dockerInfo).Stages) = 0 THEN "package"
    ELSE LET stages == Deref(dockerInfo).Stages
             meaningful == {i \in 1..Len(stages) :
                               /\ stages[i].Name # ""
                               /\ stages[i].Name # "builder"
                               /\ stages[i].Name # "build"
                               /\ ~(stages[i].Name = "linux" \/ stages[i].Name = "windows")}
             names == binaryNames(stages)
         IN IF meaningful # {}
            THEN ToLower(stages[CHOOSE i \in meaningful : \A j \in meaningful : i <= j].Name)
            ELSE IF Len(names) > 0 THEN ToLower(names[1])
            ELSE "package"

\* derivePackageName extracts a package name from Dockerfile info
derivePackageName(dockerInfo) ==
    IF dockerInfo = Nil \/ Len(Deref(dockerInfo).Stages) = 0 THEN "package"
    ELSE LET stages == Deref(dockerInfo).Stages
             meaningful == {i \in 1..Len(stages) :
                               /\ stages[i].Name # ""
                               /\ stages[i].Name # "builder"
                               /\ stages[i].Name # "build"
                               /\ ~(stages[i].Name = "linux" \/ stages[i].Name = "windows")}
             names == binaryNames(stages)
         IN IF meaningful # {}
            THEN ToLower(stages[CHOOSE i \in meaningful : \A j \in meaningful : j <= i].Name)
            ELSE IF Len(names) > 0 THEN ToLower(names[1])
            ELSE "package"

\* buildExtensions creates the x-build-extensions section
buildExtensions(packageName) ==
    ("image-name" :> ToLower(packageName))
    @@ ("repository" :> "azure")
    @@ ("build-targets" :> <<"azlinux3/rpm", "azlinux3/container", "windowscross/container">>)
    @@ ("per-target" :> [windowscross |-> [platforms |-> <<"windows/amd64">>]])

\* extractSources without the fallback entry
extractSourcesNoFallback(info, repoMeta) ==
    LET named == IF repoMeta # Nil /\ Deref(repoMeta).RepoName # ""
                 THEN Deref(repoMeta).RepoName ELSE "source"
        git == [url    |-> IF repoMeta # Nil /\ Deref(repoMeta).GitURL # ""
                           THEN Deref(repoMeta).GitURL ELSE "",
                commit |-> "${COMMIT}"]
        builders == BuilderIndices(info)
    IN IF Len(builders) > 0
       THEN LET stage == info.Stages[builders[1]]
                sourceName == IF named = "source" THEN deriveSourceName(stage) ELSE named
            IN sourceName :> (IF hasGoModules(stage)
                              THEN [git |-> git, generate |-> <<[gomod |-> EmptyMap]>>]
                              ELSE [git |-> git])
       ELSE EmptyMap

\* extractSources creates source definitions from Dockerfile
extractSources(info, repoMeta) ==
    LET named == IF repoMeta # Nil /\ Deref(repoMeta).RepoName # ""
                 THEN Deref(repoMeta).RepoName ELSE "source"
        git == [url    |-> IF repoMeta # Nil /\ Deref(repoMeta).GitURL # ""
                           THEN Deref(repoMeta).GitURL ELSE "",
                commit |-> "${COMMIT}"]
        builders == BuilderIndices(info)
    IN IF Len(builders) > 0
       THEN LET stage == info.Stages[builders[1]]
                sourceName == IF named = "source" THEN deriveSourceName(stage) ELSE named
            IN sourceName :> (IF hasGoModules(stage)
                              THEN [git |-> git, generate |-> <<[gomod |-> EmptyMap]>>]
                              ELSE [git |-> git])
       ELSE named :> [git |-> git]

\* extractDependencies extracts build and runtime dependencies
extractDependencies(info) ==
    LET buildDeps ==
            IF \E i \in 1..Len(info.Stages) :
                   \/ hasGoModules(info.Stages[i])
                   \/ info.Stages[i].From = "go"
                   \/ Contains(info.Stages[i].From, "golang")
            THEN "msft-golang" :> EmptyMap
            ELSE EmptyMap
    IN IF Cardinality(DOMAIN buildDeps) > 0 THEN [build |-> buildDeps] ELSE EmptyMap

\* extractTargets taking a golang base image for a use of the toolchain
extractTargetsGolangBase(info) ==
    LET hasGo == \E i \in 1..Len(info.Stages) :
                     \/ hasGoModules(info.Stages[i])
                     \/ Contains(info.Stages[i].From, "golang")
        runtimeDeps ==
            IF hasGo
            THEN ("openssl-libs" :> EmptyMap) @@ ("SymCrypt" :> EmptyMap)
                 @@ ("SymCrypt-OpenSSL" :> EmptyMap)
            ELSE EmptyMap
    IN IF Cardinality(DOMAIN runtimeDeps) > 0
       THEN [azlinux3 |-> [dependencies |-> [runtime |-> runtimeDeps]]]
       ELSE EmptyMap

\* extractTargets creates target-specific configurations
extractTargets(info) ==
    LET hasGo == \E i \in 1..Len(info.Stages) : hasGoModules(info.Stages[i])
        runtimeDeps ==
            IF hasGo
            THEN ("openssl-libs" :> EmptyMap) @@ ("SymCrypt" :> EmptyMap)
                 @@ ("SymCrypt-OpenSSL" :> EmptyMap)
            ELSE EmptyMap
    IN IF Cardinality(DOMAIN runtimeDeps) > 0
       THEN [azlinux3 |-> [dependencies |-> [runtime |-> runtimeDeps]]]
       ELSE EmptyMap

\* extractBuildCommands extracts build commands from builder stages
extractBuildCommands(info) ==
    LET stepOf(stage) ==
            LET commands == SelectSeq(stage.Runs,
                                LAMBDA run : /\ ~Contains(run, "apt-get")
                                             /\ ~Contains(run, "yum install")
                                             /\ ~Contains(run, "tdnf install"))
                cmd == Join(commands, "\n")
            IN IF Len(commands) > 0
               THEN <<[command |-> IF stage.Workdir # "" /\ ~Contains(cmd, "cd ")
                                   THEN "cd " \o stage.Workdir \o "\n" \o cmd
                                   ELSE cmd]>>
               ELSE <<>>
        builders == BuilderIndices(info)
    IN ConcatAll([n \in 1..Len(builders) |-> stepOf(info.Stages[builders[n]])])

\* the body of the loop over the stages of extractBuildSteps; keys is the
\* order in which the range over stage.Env yields its keys
\* the loop over stage.Env left after the first variable it takes
mergeStageEnvBreak(env, stageEnv, keys) ==
    LET taken == SelectSeq(keys, LAMBDA k : k # "OS" /\ k # "ARCH" /\ k # "VERSION")
    IN IF Len(taken) = 0 THEN env ELSE Put(env, taken[1], stageEnv[taken[1]])

RECURSIVE mergeStageEnv(_, _, _)
mergeStageEnv(env, stageEnv, keys) ==
    IF Len(keys) = 0 THEN env
    ELSE LET k == Head(keys)
         IN mergeStageEnv(IF k # "OS" /\ k # "ARCH" /\ k # "VERSION"
                          THEN Put(env, k, stageEnv[k]) ELSE env,
                          stageEnv, Tail(keys))

RECURSIVE collectEnv(_, _, _, _)
collectEnv(env, stages, order, i) ==
    IF i > Len(stages) THEN env
    ELSE LET stage == stages[i]
             merged == mergeStageEnv(env, stage.Env, order[i])
             withGo == IF hasGoModules(stage)
                       THEN PutAll(merged, <<<<"GOPROXY", "direct">>,
                                             <<"GOEXPERIMENT", "systemcrypto">>,
                                             <<"CGO_ENABLED", "1">>>>)
                       ELSE merged
         IN collectEnv(IF isBuilderStage(stage) THEN withGo ELSE env, stages, order, i + 1)

\* extractBuildSteps converts RUN commands to Dalec build steps; order[i] is
\* the order in which the map stages[i].Env is iterated
extractBuildSteps(info, order) ==
    LET env == collectEnv([VERSION |-> "${VERSION}"], info.Stages, order, 1)
        steps == extractBuildCommands(info)
    IN (IF Cardinality(DOMAIN env) > 0 THEN [env |-> env] ELSE EmptyMap)
       @@ (IF Len(steps) > 0 THEN [steps |-> steps] ELSE EmptyMap)

\* extractArtifacts matching only the literal stage reference "builder"
extractArtifactsLiteralOnly(info) ==
    LET ofCopy(copy) ==
            IF copy.From = "builder"
            THEN SelectSeq(copy.Source,
                           LAMBDA src : Contains(src, "/bin/") \/ HasSuffix(src, ".exe"))
            ELSE <<>>
        ofStage(stage) ==
            IF isBuilderStage(stage) THEN <<>>
            ELSE ConcatAll([j \in 1..Len(stage.Copies) |-> ofCopy(stage.Copies[j])])
        found == ConcatAll([i \in 1..Len(info.Stages) |-> ofStage(ReverseSeq(info.Stages)[i])])
        binaries == PutAll(EmptyMap, [n \in 1..Len(found) |-> <<found[n], EmptyMap>>])
    IN IF Cardinality(DOMAIN binaries) > 0 THEN [binaries |-> binaries] ELSE EmptyMap

\* extractArtifacts identifies build artifacts
extractArtifacts(info) ==
    LET builderName == findBuilderStageName(info)
        ofCopy(copy) ==
            IF copy.From = builderName \/ copy.From = "builder"
            THEN SelectSeq(copy.Source,
                           LAMBDA src : Contains(src, "/bin/") \/ HasSuffix(src, ".exe"))
            ELSE <<>>
        ofStage(stage) ==
            IF isBuilderStage(stage) THEN <<>>
            ELSE ConcatAll([j \in 1..Len(stage.Copies) |-> ofCopy(stage.Copies[j])])
        found == ConcatAll([i \in 1..Len(info.Stages) |-> ofStage(ReverseSeq(info.Stages)[i])])
        binaries == PutAll(EmptyMap, [n \in 1..Len(found) |-> <<found[n], EmptyMap>>])
    IN IF Cardinality(DOMAIN binaries) > 0 THEN [binaries |-> binaries] ELSE EmptyMap

\* createSymlinks creates symlink configuration for binaries
createSymlinks(stage) ==
    LET linkOf(copy, src) ==
            LET binaryName == Base(src)
                destPath == IF ~HasSuffix(copy.Dest, binaryName)
                            THEN copy.Dest
                            ELSE PathJoin(copy.Dest, binaryName)
            IN <<"/usr/bin/" \o binaryName, [path |-> destPath]>>
        ofCopy(copy) ==
            IF copy.From = "builder" \/ Contains(copy.From, "build")
            THEN LET hits == SelectSeq(copy.Source,
                                 LAMBDA src : /\ Contains(src, "/bin/")
                                              /\ Contains(copy.Dest, "/usr/local/bin/"))
                 IN [n \in 1..Len(hits) |-> linkOf(copy, hits[n])]
            ELSE <<>>
        symlinks == PutAll(EmptyMap,
                           ConcatAll([j \in 1..Len(stage.Copies) |-> ofCopy(stage.Copies[j])]))
    IN IF Cardinality(DOMAIN symlinks) > 0 THEN [symlinks |-> symlinks] ELSE EmptyMap

\* extractImageConfig extracts final image configuration
extractImageConfig(info) ==
    LET stages == info.Stages
        candidates == {i \in 1..Len(stages) :
                          /\ stages[i].Name # "windows" /\ stages[i].Name # "hpc"
                          /\ (Len(stages[i].Entrypoint) > 0 \/ Len(stages[i].Copies) > 0)}
    IN IF Len(stages) = 0 \/ candidates = {} THEN EmptyMap
       ELSE LET finalStage == stages[CHOOSE i \in candidates : \A j \in candidates : j <= i]
                post == createSymlinks(finalStage)
            IN (IF Len(finalStage.Entrypoint) > 0
                THEN [entrypoint |->
                         IF Len(finalStage.Entrypoint) > 2 /\ finalStage.Entrypoint[1] = "/bin/sh"
                         THEN finalStage.Entrypoint[3] ELSE finalStage.Entrypoint[1]]
                ELSE EmptyMap)
               @@ (IF Cardinality(DOMAIN post) > 0 THEN [post |-> post] ELSE EmptyMap)

(***************************************************************************)
(* transformer: TransformToDalec                                           *)
(*                                                                         *)
(* The result is [panic, spec, rebuilt, dockerInfo]: whether the call      *)
(* panicked instead of returning, the returned specification, what the     *)
(* reconciler computed, and the DockerfileInfo as the call leaves it.      *)
(***************************************************************************)
NoSpec == EmptyMap

\* TransformToDalec writing the reconciled revision into args.REVISION
TransformToDalecFedBack(repoInfo, previousSpec, dockerInfo, order, intSize) ==
    LET rebuilt == rebuild(repoInfo, previousSpec, intSize)
        packageName == IF repoInfo # Nil /\ Deref(repoInfo).RepoName # ""
                       THEN ToLower(Deref(repoInfo).RepoName)
                       ELSE derivePackageName(dockerInfo)
        head == ("# syntax" :> "ghcr.io/azure/dalec/frontend:latest")
                @@ ("args" :> [populateArgs(repoInfo, dockerInfo)
                                  EXCEPT !["REVISION"] = rebuilt.Revision])
                @@ ("name" :> packageName)
                @@ populateMetadata(repoInfo)
                @@ ("x-build-extensions" :> buildExtensions(packageName))
        sections == IF dockerInfo # Nil
                    THEN LET info == Deref(dockerInfo)
                         IN [sources      |-> extractSources(info, repoInfo),
                             dependencies |-> extractDependencies(info),
                             targets      |-> extractTargets(info),
                             build        |-> extractBuildSteps(info, order),
                             artifacts    |-> extractArtifacts(info),
                             image        |-> extractImageConfig(info)]
                    ELSE EmptyMap
    IN IF rebuilt.panic
       THEN [panic |-> TRUE, spec |-> NoSpec, rebuilt |-> rebuilt, dockerInfo |-> dockerInfo]
       ELSE [panic |-> FALSE,
             spec |-> head @@ sections @@ ("tests" :> <<>>),
             rebuilt |-> rebuilt,
             dockerInfo |-> dockerInfo]

TransformToDalec(repoInfo, previousSpec, dockerInfo, order, intSize) ==
    LET rebuilt == rebuild(repoInfo, previousSpec, intSize)
        packageName == IF repoInfo # Nil /\ Deref(repoInfo).RepoName # ""
                       THEN ToLower(Deref(repoInfo).RepoName)
                       ELSE derivePackageName(dockerInfo)
        head == ("# syntax" :> "ghcr.io/azure/dalec/frontend:latest")
                @@ ("args" :> populateArgs(repoInfo, dockerInfo))
                @@ ("name" :> packageName)
                @@ populateMetadata(repoInfo)
                @@ ("x-build-extensions" :> buildExtensions(packageName))
        sections == IF dockerInfo # Nil
                    THEN LET info == Deref(dockerInfo)
                         IN [sources      |-> extractSources(info, repoInfo),
                             dependencies |-> extractDependencies(info),
                             targets      |-> extractTargets(info),
                             build        |-> extractBuildSteps(info, order),
                             artifacts    |-> extractArtifacts(info),
                             image        |-> extractImageConfig(info)]
                    ELSE EmptyMap
    IN IF rebuilt.panic
       THEN [panic |-> TRUE, spec |-> NoSpec, rebuilt |-> rebuilt, dockerInfo |-> dockerInfo]
       ELSE [panic |-> FALSE,
             spec |-> head @@ sections @@ ("tests" :> <<>>),
             rebuilt |-> rebuilt,
             dockerInfo |-> dockerInfo]


(***************************************************************************)
(* reading the previous specification                                      *)
(*                                                                         *)
(* An error value is the chain of its layers, outermost first, each layer  *)
(* <<dynamic type, text>>; the nil error is the empty chain.  The file at  *)
(* the output path is [kind, doc]: missing, denied (no read permission),   *)
(* directory, invalid (not YAML) or document, doc being the top-level      *)
(* mapping of the document with its scalar values as text.                 *)
(***************************************************************************)
NoError == <<>>

\* &fs.PathError{Op: op, Path: path, Err: errno}
PathError(op, errno) == << <<"*fs.PathError", op>>, <<"syscall.Errno", errno>> >>

\* fmt.Errorf(msg + ": %w", err)
Errorf(msg, err) == << <<"*fmt.wrapError", msg>> >> \o err

\* os.underlyingError: the error inside a PathError, LinkError or SyscallError
underlyingError(err) ==
    IF err # NoError /\ Head(err)[1] \in {"*fs.PathError", "*os.LinkError", "*os.SyscallError"}
    THEN Tail(err)
    ELSE err

\* os.IsNotExist: the underlying error is ErrNotExist or an Errno that is ENOENT
IsNotExist(err) ==
    LET e == underlyingError(err)
    IN \/ e = << <<"*errors.errorString", "file does not exist">> >>
       \/ e = << <<"syscall.Errno", "ENOENT">> >>

File(kind, doc) == [kind |-> kind, doc |-> doc]

NoFile == File("missing", EmptyMap)

\* content, err := os.ReadFile(path)
ReadFile(file) ==
    CASE file.kind = "missing"   -> [content |-> Nil, err |-> PathError("open", "ENOENT")]
      [] file.kind = "denied"    -> [content |-> Nil, err |-> PathError("open", "EACCES")]
      [] file.kind = "directory" -> [content |-> Nil, err |-> PathError("read", "EISDIR")]
      [] OTHER                   -> [content |-> Ptr(file), err |-> NoError]

\* yaml.Unmarshal(content, &data): the fields take the values of the keys
\* named after them in lower case
Unmarshal(content, data) ==
    IF content.kind = "invalid"
    THEN [data |-> data, err |-> << <<"*errors.errorString", "yaml: did not find expected key">> >>]
    ELSE [data |-> [Commit   |-> IF Has(content.doc, "commit")
                                 THEN content.doc["commit"] ELSE data.Commit,
                    Revision |-> IF Has(content.doc, "revision")
                                 THEN content.doc["revision"] ELSE data.Revision],
          err |-> NoError]

\* ReadYAML reads a DalecSpec file and unmarshal updated values
ReadYAML(file) ==
    LET data == [Commit |-> "", Revision |-> ""]
        read == ReadFile(file)
    IN IF read.err # NoError
       THEN [data |-> data, err |-> Errorf("failed to read file", read.err)]
       ELSE LET u == Unmarshal(Deref(read.content), data)
            IN IF u.err # NoError
               THEN [data |-> u.data, err |-> Errorf("failed to unmarshal YAML", u.err)]
               ELSE [data |-> u.data, err |-> NoError]

\* fetchPreviousYAMLInfo: the branch taken, the specification and the error returned
fetchPreviousYAMLInfo(file) ==
    LET r == ReadYAML(file)
    IN IF r.err # NoError
       THEN IF IsNotExist(r.err)
            THEN [branch |-> "not found", spec |-> [Commit |-> "", Revision |-> ""],
                  err |-> NoError]
            ELSE [branch |-> "error", spec |-> [Commit |-> "", Revision |-> ""],
                  err |-> r.err]
       ELSE [branch |-> "read", spec |-> r.data, err |-> NoError]

NotFetched == [branch |-> "none", spec |-> [Commit |-> "", Revision |-> ""], err |-> NoError]

(***************************************************************************)
(* transformer: Set and Get on a specification document                    *)
(*                                                                         *)
(* A value held in an interface{} is [type, val]: its dynamic type and,    *)
(* for a map, the mapping of its keys to such values, for a string, the    *)
(* one-element tuple of its text.  A DalecSpec is such a value of the      *)
(* defined type transformer.DalecSpec.                                     *)
(***************************************************************************)
MapType == "map[string]interface {}"
DalecSpecType == "transformer.DalecSpec"

String(s) == [type |-> "string", val |-> <<s>>]
Map(m) == [type |-> MapType, val |-> m]
StringMap(m) == [type |-> "map[string]string", val |-> m]
DalecSpec(m) == [type |-> DalecSpecType, val |-> m]
NilValue == [type |-> "nil", val |-> <<>>]

\* strings.Split(s, sep)
RECURSIVE Split(_, _)
Split(s, sep) ==
    LET i == IndexOf(s, sep)
    IN IF i = 0 THEN <<s>>
       ELSE <<SubSeq(s, 1, i - 1)>> \o Split(SubSeq(s, i + Len(sep), Len(s)), sep)

\* the loop of Set and its final assignment, on the map current
RECURSIVE SetKeys(_, _, _)
SetKeys(current, keys, value) ==
    IF Len(keys) = 1 THEN Put(current, keys[1], value)
    ELSE LET key == keys[1]
             m == IF Has(current, key) /\ current[key].type = MapType
                  THEN current[key].val
                  ELSE EmptyMap
         IN Put(current, key, Map(SetKeys(m, Tail(keys), value)))

\* Set sets a nested value using dot notation path
Set(spec, path, value) ==
    [spec EXCEPT !.val = SetKeys(@, Split(path, "."), value)]

\* the loop of Get, on the interface value current
RECURSIVE GetKeys(_, _, _)
GetKeys(current, keys, path) ==
    IF Len(keys) = 0 THEN [val |-> current, err |-> NoError]
    ELSE LET key == keys[1]
         IN IF current.type = MapType
            THEN IF Has(current.val, key)
                 THEN GetKeys(current.val[key], Tail(keys), path)
                 ELSE [val |-> NilValue,
                       err |-> << <<"*errors.errorString",
                                    "key not found: " \o key \o " in path " \o path>> >>]
            ELSE [val |-> NilValue,
                  err |-> << <<"*errors.errorString",
                               "not a map at key: " \o key \o " in path " \o path>> >>]

\* Get retrieves a nested value using dot notation path
Get(spec, path) == GetKeys(spec, Split(path, "."), path)

(***************************************************************************)
(* inputs                                                                  *)
(***************************************************************************)
FromNodes ==
    {Node("FROM", <<"--platform=linux/amd64">>, <<"golang:1.21", "AS", "builder">>, FALSE),
     Node("from", <<>>, <<"alpine", "as", "Build-Env">>, FALSE),
     Node("FROM", <<>>, <<"scratch">>, FALSE),
     Node("FROM", <<"--platform=a", "--platform=b">>, <<"ubuntu", "AS">>, FALSE)}

ArgNodes ==
    {Node("ARG", <<>>, <<"FOO=1">>, FALSE),
     Node("arg", <<>>, <<"FOO=2">>, FALSE),
     Node("ARG", <<>>, <<"BAR", "x y">>, FALSE),
     Node("ARG", <<>>, <<>>, FALSE)}

EnvNodes ==
    {Node("env", <<>>, <<"FOO=env">>, FALSE)}

WorkdirNodes ==
    {Node("WORKDIR", <<>>, <<"/src/app">>, FALSE),
     Node("WORKDIR", <<>>, <<>>, FALSE)}

RunNodes ==
    {Node("run", <<>>, <<"go", "mod", "download">>, TRUE)}

CopyNodes ==
    {Node("COPY", <<"--from=builder">>, <<"/app/bin/app", "/usr/local/bin/app">>, FALSE),
     Node("add", <<"--chown=1">>, <<"only">>, FALSE),
     Node("ADD", <<"--chown=1", "--from=build">>, <<"go.mod", "go.sum", "/src/">>, FALSE),
     Node("COPY", <<"--from=x", "--from=y">>, <<>>, FALSE)}

EntrypointNodes ==
    {Node("ENTRYPOINT", <<>>, <<"/app", "-v">>, TRUE),
     Node("entrypoint", <<>>, <<"/app -v">>, FALSE),
     Node("ENTRYPOINT", <<>>, <<>>, FALSE)}

CmdNodes ==
    {Node("cmd", <<>>, <<"serve", "now">>, FALSE),
     Node("CMD", <<>>, <<>>, TRUE)}

ExposeNodes ==
    {Node("EXPOSE", <<>>, <<"8080", "9090">>, FALSE),
     Node("expose", <<>>, <<>>, FALSE)}

LabelNodes ==
    {Node("label", <<>>, <<"maintainer=\"me\"">>, FALSE)}

OtherNodes ==
    {Node("healthcheck", <<"--interval=5s">>, <<"CMD", "true">>, FALSE)}

\* the build files that are transformed: an optional preamble of global
\* declarations followed by stage snippets
N(value, flags, next) == Node(value, flags, next, FALSE)

Preambles ==
    {<<>>,
     <<N("ARG", <<>>, <<"VERSION=2.0">>), N("ARG", <<>>, <<"COMMIT=fromarg">>),
       N("ARG", <<>>, <<"TARGETOS">>)>>}

Snippets ==
    {<<N("FROM", <<>>, <<"golang:1.21", "AS", "builder">>),
       N("WORKDIR", <<>>, <<"/src/app">>),
       N("ENV", <<>>, <<"CGO_ENABLED=0">>),
       N("ENV", <<>>, <<"FOO=bar">>),
       N("RUN", <<>>, <<"go build -o bin/app ./main.go">>)>>,
     <<N("FROM", <<>>, <<"alpine", "AS", "Build-Env">>),
       N("ENV", <<>>, <<"FOO=baz">>),
       N("ENV", <<>>, <<"OS=linux">>),
       N("RUN", <<>>, <<"apt-get install -y gcc">>),
       N("RUN", <<>>, <<"cd /work && make">>),
       N("WORKDIR", <<>>, <<"/work">>)>>,
     <<N("FROM", <<>>, <<"golang:1.21", "AS", "build">>),
       N("RUN", <<>>, <<"yum install make">>)>>,
     <<N("FROM", <<>>, <<"scratch">>),
       N("COPY", <<"--from=builder">>, <<"/app/bin/app", "/usr/local/bin/app">>),
       Node("ENTRYPOINT", <<>>, <<"/usr/local/bin/app", "-v">>, TRUE)>>,
     <<N("FROM", <<>>, <<"alpine", "AS", "helloworld">>),
       N("RUN", <<>>, <<"go mod download">>),
       N("COPY", <<"--from=Build-Env">>, <<"/out/tool.exe", "/app/bin/Widget", "/usr/local/bin/">>),
       N("COPY", <<>>, <<"/etc/bin/conf", "/etc/">>),
       N("ENTRYPOINT", <<>>, <<"/usr/local/bin/tool">>)>>,
     <<N("FROM", <<>>, <<"servercore", "AS", "windows">>),
       N("COPY", <<"--from=builder">>, <<"/app/lib/x.dll", "/app/bin/Widget.exe", "/app.exe">>)>>,
     <<N("FROM", <<>>, <<"alpine", "AS", "linux">>),
       N("COPY", <<"--from=builder">>, <<"/app/bin/.exe", "/x">>)>>}

\* the concatenations of at most n snippets
RECURSIVE Bodies(_)
Bodies(n) ==
    IF n = 0 THEN {<<>>}
    ELSE Bodies(n - 1) \cup {b \o sn : b \in Bodies(n - 1), sn \in Snippets}

\* no build file, the build files of at most MaxStages snippets, and those of
\* fewer snippets after a preamble
DockerInfos ==
    {Nil}
    \cup {Ptr(ParseDockerfile(body)) : body \in Bodies(MaxStages)}
    \cup {Ptr(ParseDockerfile(pre \o body)) : pre \in Preambles, body \in Bodies(MaxStages - 1)}

RepoMetadata(url, commit, website, description, license, name) ==
    [GitURL |-> url, Commit |-> commit, Website |-> website,
     Description |-> description, License |-> license, RepoName |-> name]

RepoInfos ==
    {Nil,
     Ptr(RepoMetadata("", "", "", "", "", "")),
     Ptr(RepoMetadata("https://github.com/o/HelloWorld", "abc", "https://o.example",
                      "says hello", "MIT", "HelloWorld")),
     Ptr(RepoMetadata("https://github.com/o/r", "def", "", "", "", ""))}

PreviousDalecSpec(commit, revision) == [Commit |-> commit, Revision |-> revision]

PreviousSpecs ==
    {PreviousDalecSpec("", ""),
     PreviousDalecSpec("abc", "3"),
     PreviousDalecSpec("def", "3")}

\* the orders in which a range over the map m can yield its keys
KeyOrders(m) ==
    LET n == Cardinality(DOMAIN m)
    IN {o \in [1..n -> DOMAIN m] : \A k \in DOMAIN m : \E i \in 1..n : o[i] = k}

\* one key order for the Env map of every stage
EnvOrders(dockerInfo) ==
    IF dockerInfo = Nil THEN {<<>>}
    ELSE LET stages == Deref(dockerInfo).Stages
             all == UNION {KeyOrders(stages[i].Env) : i \in 1..Len(stages)}
         IN {o \in [1..Len(stages) -> all] :
                \A i \in 1..Len(stages) : o[i] \in KeyOrders(stages[i].Env)}

(***************************************************************************)
(* state                                                                   *)
(***************************************************************************)
VARIABLES
    phase,          \* "parsing", "parsed", "transformed", "again"
    info,           \* the DockerfileInfo ParseDockerfile builds
    currentStage,   \* index in info.Stages of *currentStage, 0 for nil
    trace,          \* history: the nodes processed, each with the value of the
                    \* local instruction and the stage current after it
    dockerInfo,     \* the *DockerfileInfo handed to TransformToDalec
    repoInfo,       \* the *RepoMetadata handed to TransformToDalec
    previousSpec,   \* the PreviousDalecSpec handed to TransformToDalec
    intSize,        \* the width of int of the build
    out,            \* the outcome of TransformToDalec
    previousSpec2,  \* the PreviousDalecSpec of a second call
    out2,           \* the outcome of the second call
    outputFile,     \* what os.ReadFile finds at the output path
    fetched,        \* what fetchPreviousYAMLInfo did: its branch and its error
    dalecSpec,      \* the DalecSpec Set and Get are called on
    access          \* the last call of Set or Get: its arguments and results

vars == <<phase, info, currentStage, trace, dockerInfo, repoInfo, previousSpec,
          intSize, out, previousSpec2, out2, outputFile, fetched,
          dalecSpec, access>>

parserVars == <<info, currentStage, trace>>
docVars == <<dalecSpec, access>>
inputVars == <<repoInfo, previousSpec, intSize, outputFile, fetched, docVars>>

NoAccess == [op |-> "none", n |-> 0, path |-> "", value |-> NilValue,
             result |-> NilValue, err |-> NoError]

NoOut == [panic |-> FALSE, spec |-> NoSpec,
          rebuilt |-> [panic |-> FALSE, ret |-> FALSE, Revision |-> ""]]

(***************************************************************************)
(* ParseDockerfile, one action per case of the switch                      *)
(***************************************************************************)
Init ==
    /\ phase = "parsing"
    /\ info = NewInfo
    /\ currentStage = 0
    /\ trace = <<>>
    /\ dockerInfo = Nil
    /\ repoInfo = Nil
    /\ previousSpec = PreviousDalecSpec("", "")
    /\ intSize = 64
    /\ out = NoOut
    /\ previousSpec2 = PreviousDalecSpec("", "")
    /\ out2 = NoOut
    /\ outputFile = NoFile
    /\ fetched = NotFetched
    /\ dalecSpec = DalecSpec(EmptyMap)
    /\ access = NoAccess

Walk(node) ==
    /\ phase = "parsing"
    /\ Len(trace) < MaxNodes
    /\ \E b \in {ParseNode([info |-> info, currentStage |-> currentStage], node)} :
          /\ info' = b.info
          /\ currentStage' = b.currentStage
          /\ trace' = Append(trace, [node |-> node,
                                     instruction |-> ToUpper(node.Value),
                                     stage |-> b.currentStage])
    /\ UNCHANGED <<phase, dockerInfo, inputVars, out, previousSpec2, out2>>

ParseFROM == \E node \in FromNodes : Walk(node)
ParseARG == \E node \in ArgNodes : Walk(node)
ParseENV == \E node \in EnvNodes : Walk(node)
ParseWORKDIR == \E node \in WorkdirNodes : Walk(node)
ParseRUN == \E node \in RunNodes : Walk(node)
ParseCOPY == \E node \in CopyNodes : Walk(node)
ParseENTRYPOINT == \E node \in EntrypointNodes : Walk(node)
ParseCMD == \E node \in CmdNodes : Walk(node)
ParseEXPOSE == \E node \in ExposeNodes : Walk(node)
ParseLABEL == \E node \in LabelNodes : Walk(node)
ParseOther == \E node \in OtherNodes : Walk(node)

\* return info, nil
ParseReturn ==
    /\ phase = "parsing"
    /\ phase' = "parsed"
    /\ dockerInfo' = Ptr(info)
    /\ UNCHANGED <<parserVars, inputVars, out, previousSpec2, out2>>

Next ==
    \/ ParseFROM
    \/ ParseARG
    \/ ParseENV
    \/ ParseWORKDIR
    \/ ParseRUN
    \/ ParseCOPY
    \/ ParseENTRYPOINT
    \/ ParseCMD
    \/ ParseEXPOSE
    \/ ParseLABEL
    \/ ParseOther
    \/ ParseReturn

Spec == Init /\ [][Next]_vars

(***************************************************************************)
(* TransformToDalec on a parsed build file                                 *)
(***************************************************************************)
InitTransform ==
    /\ phase = "parsed"
    /\ info = NewInfo
    /\ currentStage = 0
    /\ trace = <<>>
    /\ dockerInfo \in DockerInfos
    /\ repoInfo \in RepoInfos
    /\ previousSpec \in PreviousSpecs
    /\ intSize = 64
    /\ out = NoOut
    /\ previousSpec2 = PreviousDalecSpec("", "")
    /\ out2 = NoOut
    /\ outputFile = NoFile
    /\ fetched = NotFetched
    /\ dalecSpec = DalecSpec(EmptyMap)
    /\ access = NoAccess

Outcome(r) == [panic |-> r.panic, spec |-> r.spec, rebuilt |-> r.rebuilt]

\* dalecSpec := transformer.TransformToDalec(repoMeta, previousYAMLInfo, dockerfileInfo)
Transform ==
    /\ phase = "parsed"
    /\ \E order \in EnvOrders(dockerInfo) :
           \E r \in {TransformToDalec(repoInfo, previousSpec, dockerInfo, order, intSize)} :
              /\ out' = Outcome(r)
              /\ dockerInfo' = r.dockerInfo
    /\ phase' = "transformed"
    /\ UNCHANGED <<parserVars, inputVars, previousSpec2, out2>>

\* a second call on the same build file and metadata
TransformAgain ==
    /\ phase = "transformed"
    /\ \E p \in PreviousSpecs, order \in EnvOrders(dockerInfo) :
           \E r \in {TransformToDalec(repoInfo, p, dockerInfo, order, intSize)} :
              /\ previousSpec2' = p
              /\ out2' = Outcome(r)
              /\ dockerInfo' = r.dockerInfo
    /\ phase' = "again"
    /\ UNCHANGED <<parserVars, inputVars, out>>

NextTransform ==
    \/ Transform
    \/ TransformAgain

SpecTransform == InitTransform /\ [][NextTransform]_vars


(***************************************************************************)
(* TransformToDalec on the previous specifications the reconciler tells    *)
(* apart                                                                   *)
(***************************************************************************)
RevAlphabet == {"0", "3", "9", "-", "+", "x"}

RECURSIVE StringsOver(_, _)
StringsOver(alphabet, n) ==
    IF n = 0 THEN {""}
    ELSE StringsOver(alphabet, n - 1)
         \cup {t \o c : t \in StringsOver(alphabet, n - 1), c \in alphabet}

RevisionStrings ==
    StringsOver(RevAlphabet, MaxRevLen)
    \cup {"007", "${REVISION}",
          "2147483646", "2147483647", "2147483648", "-2147483648", "-2147483649",
          "9223372036854775806", "9223372036854775807", "9223372036854775808",
          "-9223372036854775808", "-9223372036854775809"}

IntSizes == {32, 64}

\* no build file, an empty one, and one that declares the revision
RebuildDockerInfos ==
    {Nil,
     Ptr(ParseDockerfile(<<>>)),
     Ptr(ParseDockerfile(<<N("ARG", <<>>, <<"REVISION=7">>)>>))}

InitRebuild ==
    /\ phase = "parsed"
    /\ info = NewInfo
    /\ currentStage = 0
    /\ trace = <<>>
    /\ dockerInfo \in RebuildDockerInfos
    /\ repoInfo \in RepoInfos
    /\ previousSpec \in {PreviousDalecSpec(c, r) : c \in {"", "abc", "def"}, r \in RevisionStrings}
    /\ intSize \in IntSizes
    /\ out = NoOut
    /\ previousSpec2 = PreviousDalecSpec("", "")
    /\ out2 = NoOut
    /\ outputFile = NoFile
    /\ fetched = NotFetched
    /\ dalecSpec = DalecSpec(EmptyMap)
    /\ access = NoAccess

SpecRebuild == InitRebuild /\ [][NextTransform]_vars

(***************************************************************************)
(* TransformToDalec on build files whose stages differ in what the build   *)
(* section is made of: environment, working directory and run commands     *)
(***************************************************************************)
\* the concatenations of at most n of the snippets
RECURSIVE BodiesOf(_, _)
BodiesOf(snippets, n) ==
    IF n = 0 THEN {<<>>}
    ELSE BodiesOf(snippets, n - 1)
         \cup {b \o sn : b \in BodiesOf(snippets, n - 1), sn \in snippets}

BuildSnippets ==
    {<<N("FROM", <<>>, <<"golang:1.21", "AS", "builder">>),
       N("WORKDIR", <<>>, <<"/src/app">>),
       N("ENV", <<>>, <<"CGO_ENABLED=0">>),
       N("ENV", <<>>, <<"FOO=bar">>),
       N("RUN", <<>>, <<"go build -o bin/app ./main.go">>)>>,
     <<N("FROM", <<>>, <<"alpine", "AS", "Build-Env">>),
       N("ENV", <<>>, <<"FOO=baz">>),
       N("ENV", <<>>, <<"OS=linux">>),
       N("RUN", <<>>, <<"apt-get install -y gcc">>),
       N("RUN", <<>>, <<"cd /work && make">>),
       N("WORKDIR", <<>>, <<"/work">>)>>,
     <<N("FROM", <<>>, <<"alpine", "AS", "build">>),
       N("ENV", <<>>, <<"VERSION=9">>),
       N("RUN", <<>>, <<"yum install make">>),
       N("RUN", <<>>, <<"tdnf install -y gcc">>)>>,
     <<N("FROM", <<>>, <<"alpine", "AS", "tools-build">>),
       N("WORKDIR", <<>>, <<"/src">>),
       N("ENV", <<>>, <<"GOPROXY=off">>),
       N("RUN", <<>>, <<"cd cmd && make">>),
       N("RUN", <<>>, <<"make install">>)>>,
     <<N("FROM", <<>>, <<"alpine", "AS", "rebuild">>),
       N("ENV", <<>>, <<"BAZ=1">>),
       N("RUN", <<>>, <<"make all">>)>>,
     <<N("FROM", <<>>, <<"alpine", "AS", "runtime">>),
       N("WORKDIR", <<>>, <<"/app">>),
       N("ENV", <<>>, <<"BAR=1">>),
       N("RUN", <<>>, <<"make check">>)>>}

InitBuild ==
    /\ phase = "parsed"
    /\ info = NewInfo
    /\ currentStage = 0
    /\ trace = <<>>
    /\ dockerInfo \in {Ptr(ParseDockerfile(body)) : body \in BodiesOf(BuildSnippets, MaxStages)}
    /\ repoInfo \in RepoInfos
    /\ previousSpec = PreviousDalecSpec("", "")
    /\ intSize = 64
    /\ out = NoOut
    /\ previousSpec2 = PreviousDalecSpec("", "")
    /\ out2 = NoOut
    /\ outputFile = NoFile
    /\ fetched = NotFetched
    /\ dalecSpec = DalecSpec(EmptyMap)
    /\ access = NoAccess

SpecBuild == InitBuild /\ [][NextTransform]_vars

(***************************************************************************)
(* TransformToDalec on build files whose stages differ in what the image   *)
(* section is made of: name, copy instructions and entrypoint              *)
(***************************************************************************)
ImageSnippets ==
    {<<N("FROM", <<>>, <<"scratch">>),
       N("COPY", <<"--from=builder">>, <<"/app/bin/app", "/usr/local/bin/app">>),
       Node("ENTRYPOINT", <<>>, <<"/usr/local/bin/app", "-v">>, TRUE)>>,
     <<N("FROM", <<>>, <<"alpine", "AS", "helloworld">>),
       N("ENTRYPOINT", <<>>, <<"/usr/local/bin/tool", "--serve">>)>>,
     <<N("FROM", <<>>, <<"servercore", "AS", "windows">>),
       N("COPY", <<"--from=builder">>, <<"/app/bin/Widget.exe", "/app.exe">>),
       Node("ENTRYPOINT", <<>>, <<"/app.exe">>, TRUE)>>,
     <<N("FROM", <<>>, <<"alpine", "AS", "hpc">>),
       N("ENTRYPOINT", <<>>, <<"/usr/bin/mpirun">>)>>,
     <<N("FROM", <<>>, <<"alpine", "AS", "linux">>),
       N("COPY", <<"--from=builder">>, <<"/app/bin/app", "/x">>)>>,
     <<N("FROM", <<>>, <<"alpine", "AS", "script">>),
       Node("ENTRYPOINT", <<>>, <<"/bin/sh", "/run.sh", "now">>, TRUE)>>,
     <<N("FROM", <<>>, <<"golang:1.21", "AS", "builder">>),
       N("RUN", <<>>, <<"go build -o bin/app ./main.go">>),
       N("CMD", <<>>, <<"/src/bin/app">>)>>}

InitImage ==
    /\ phase = "parsed"
    /\ info = NewInfo
    /\ currentStage = 0
    /\ trace = <<>>
    /\ dockerInfo \in {Ptr(ParseDockerfile(body)) : body \in BodiesOf(ImageSnippets, MaxStages)}
    /\ repoInfo \in RepoInfos
    /\ previousSpec = PreviousDalecSpec("", "")
    /\ intSize = 64
    /\ out = NoOut
    /\ previousSpec2 = PreviousDalecSpec("", "")
    /\ out2 = NoOut
    /\ outputFile = NoFile
    /\ fetched = NotFetched
    /\ dalecSpec = DalecSpec(EmptyMap)
    /\ access = NoAccess

SpecImage == InitImage /\ [][NextTransform]_vars

(***************************************************************************)
(* TransformToDalec on build files and metadata that differ in what the    *)
(* sources section is made of: repository name and URL, builder stages,    *)
(* their working directories and run commands                              *)
(***************************************************************************)
SourceSnippets ==
    {<<N("FROM", <<>>, <<"golang:1.21", "AS", "builder">>),
       N("WORKDIR", <<>>, <<"/src/app">>),
       N("RUN", <<>>, <<"go build -o bin/app ./main.go">>)>>,
     <<N("FROM", <<>>, <<"alpine", "AS", "Build-Env">>),
       N("WORKDIR", <<>>, <<"/">>),
       N("RUN", <<>>, <<"make">>)>>,
     <<N("FROM", <<>>, <<"alpine", "AS", "build">>),
       N("RUN", <<>>, <<"go mod download">>)>>,
     <<N("FROM", <<>>, <<"alpine", "AS", "rebuild">>),
       N("WORKDIR", <<>>, <<"/work/">>),
       N("RUN", <<>>, <<"make">>)>>,
     <<N("FROM", <<>>, <<"alpine", "AS", "tools-build">>),
       N("WORKDIR", <<>>, <<".">>),
       N("RUN", <<>>, <<"make">>)>>,
     <<N("FROM", <<>>, <<"scratch">>),
       N("WORKDIR", <<>>, <<"/srv">>),
       N("RUN", <<>>, <<"go mod tidy">>)>>}

SourceRepoInfos ==
    {Nil,
     Ptr(RepoMetadata("", "", "", "", "", "")),
     Ptr(RepoMetadata("https://github.com/o/HelloWorld", "abc", "", "", "", "HelloWorld")),
     Ptr(RepoMetadata("https://github.com/o/source", "abc", "", "", "", "source")),
     Ptr(RepoMetadata("", "def", "", "", "", "tool")),
     Ptr(RepoMetadata("https://github.com/o/r", "def", "", "", "", ""))}

InitSources ==
    /\ phase = "parsed"
    /\ info = NewInfo
    /\ currentStage = 0
    /\ trace = <<>>
    /\ dockerInfo \in {Ptr(ParseDockerfile(body)) : body \in BodiesOf(SourceSnippets, MaxStages)}
    /\ repoInfo \in SourceRepoInfos
    /\ previousSpec = PreviousDalecSpec("", "")
    /\ intSize = 64
    /\ out = NoOut
    /\ previousSpec2 = PreviousDalecSpec("", "")
    /\ out2 = NoOut
    /\ outputFile = NoFile
    /\ fetched = NotFetched
    /\ dalecSpec = DalecSpec(EmptyMap)
    /\ access = NoAccess

SpecSources == InitSources /\ [][NextTransform]_vars

(***************************************************************************)
(* main: the build file is parsed, the previous specification is read      *)
(* from the output path, and TransformToDalec is called on both            *)
(***************************************************************************)
OutputFiles ==
    {File("missing", EmptyMap),
     File("denied", EmptyMap),
     File("directory", EmptyMap),
     File("invalid", EmptyMap),
     File("document", EmptyMap),
     File("document", [commit |-> "abc", revision |-> "3"]),
     File("document", [name |-> "helloworld", version |-> "${VERSION}",
                       revision |-> "${REVISION}"])}

\* main exits when the repository metadata cannot be fetched
InitMain ==
    /\ phase = "main"
    /\ info = NewInfo
    /\ currentStage = 0
    /\ trace = <<>>
    /\ dockerInfo = Nil
    /\ repoInfo \in RepoInfos \ {Nil}
    /\ previousSpec = PreviousDalecSpec("", "")
    /\ intSize = 64
    /\ out = NoOut
    /\ previousSpec2 = PreviousDalecSpec("", "")
    /\ out2 = NoOut
    /\ outputFile \in OutputFiles
    /\ fetched = NotFetched
    /\ dalecSpec = DalecSpec(EmptyMap)
    /\ access = NoAccess

\* dockerfileInfo, err := fetchDockerfileInfo(path, verbose): nil for an
\* empty path, else the parsed build file
FetchDockerfileInfo ==
    /\ phase = "main"
    /\ dockerInfo' \in DockerInfos
    /\ phase' = "dockerfile"
    /\ UNCHANGED <<parserVars, inputVars, out, previousSpec2, out2>>

\* previousYAMLInfo, err := fetchPreviousYAMLInfo(outputPath); main prints
\* the error and goes on
FetchPreviousYAMLInfo ==
    /\ phase = "dockerfile"
    /\ \E r \in {fetchPreviousYAMLInfo(outputFile)} :
           /\ fetched' = r
           /\ previousSpec' = r.spec
    /\ phase' = "parsed"
    /\ UNCHANGED <<parserVars, dockerInfo, repoInfo, intSize, outputFile, out,
                   previousSpec2, out2, docVars>>

NextMain ==
    \/ FetchDockerfileInfo
    \/ FetchPreviousYAMLInfo
    \/ Transform

SpecMain == InitMain /\ [][NextMain]_vars

(***************************************************************************)
(* Set and Get on a specification document                                 *)
(***************************************************************************)
\* the number of Set calls on one document
MaxSets == 2

\* documents as make(DalecSpec) and TransformToDalec leave them: build.env
\* is a map[string]string there
DalecSpecs ==
    {DalecSpec(EmptyMap),
     DalecSpec([name |-> String("package"),
                build |-> Map([env |-> StringMap([VERSION |-> String("${VERSION}"),
                                                  FOO |-> String("bar")])])]),
     DalecSpec([build |-> Map([env |-> Map([VERSION |-> String("0.1")])]),
                tests |-> Map(EmptyMap)])}

Paths == {"", "name", "build.env", "build.env.VERSION", "name.first", "a..b"}

Values == {String("1.0"), String(""), Map([k |-> String("v")]), NilValue}

InitDoc ==
    /\ phase = "document"
    /\ info = NewInfo
    /\ currentStage = 0
    /\ trace = <<>>
    /\ dockerInfo = Nil
    /\ repoInfo = Nil
    /\ previousSpec = PreviousDalecSpec("", "")
    /\ intSize = 64
    /\ out = NoOut
    /\ previousSpec2 = PreviousDalecSpec("", "")
    /\ out2 = NoOut
    /\ outputFile = NoFile
    /\ fetched = NotFetched
    /\ dalecSpec \in DalecSpecs
    /\ access = NoAccess

\* Set(spec, path, value)
SetValue ==
    /\ phase = "document"
    /\ access.n < MaxSets
    /\ \E path \in Paths, value \in Values :
           /\ dalecSpec' = Set(dalecSpec, path, value)
           /\ access' = [op |-> "Set", n |-> access.n + 1, path |-> path, value |-> value,
                         result |-> NilValue, err |-> NoError]
    /\ UNCHANGED <<phase, parserVars, dockerInfo, repoInfo, previousSpec, intSize,
                   outputFile, fetched, out, previousSpec2, out2>>

\* value, err := Get(spec, path), for the path of the last Set
GetValue ==
    /\ phase = "document"
    /\ access.op = "Set"
    /\ \E r \in {Get(dalecSpec, access.path)} :
           access' = [access EXCEPT !.op = "Get", !.result = r.val, !.err = r.err]
    /\ UNCHANGED <<phase, parserVars, dockerInfo, repoInfo, previousSpec, intSize,
                   outputFile, fetched, out, previousSpec2, out2, dalecSpec>>

NextDoc ==
    \/ SetValue
    \/ GetValue

SpecDoc == InitDoc /\ [][NextDoc]_vars

(***************************************************************************)
(* Properties                                                              *)
(***************************************************************************)
Transformed == phase \in {"transformed", "again"}

\* the previous specification records the commit the metadata reports
SameCommit ==
    /\ repoInfo # Nil
    /\ previousSpec.Commit # ""
    /\ previousSpec.Commit = Deref(repoInfo).Commit

\* the previous specification records another commit than the metadata reports
OtherCommit ==
    /\ repoInfo # Nil
    /\ previousSpec.Commit # ""
    /\ previousSpec.Commit # Deref(repoInfo).Commit

\* s is a decimal numeral: digits after an optional sign
IsDecimalInteger(s) ==
    IsDigits(IF s # "" /\ CharAt(s, 1) \in {"-", "+"} THEN SubSeq(s, 2, Len(s)) ELSE s)

Magnitude(s) == Normalize(IF CharAt(s, 1) \in {"-", "+"} THEN SubSeq(s, 2, Len(s)) ELSE s)
IsNegative(s) == CharAt(s, 1) = "-" /\ Magnitude(s) # "0"

\* the decimal numeral of n + 1, n the integer the numeral s denotes
NextDecimal(s) ==
    IF IsNegative(s)
    THEN LET m == Normalize(DecPred(Magnitude(s))) IN (IF m = "0" THEN "" ELSE "-") \o m
    ELSE DecSucc(Magnitude(s))

\* MinInt <= n < MaxInt for the integer n the numeral s denotes
FitsBelowMax(s, size) ==
    IF IsNegative(s) THEN MagLeq(Magnitude(s), MinIntMag(size))
    ELSE MagLeq(Magnitude(s), MaxIntMag(size)) /\ Magnitude(s) # MaxIntMag(size)

\* the value of a numeral of at most nine characters
RECURSIVE NatOf(_)
NatOf(d) == IF d = "" THEN 0 ELSE 10 * NatOf(SubSeq(d, 1, Len(d) - 1)) + DigitVal(CharAt(d, Len(d)))

IntOf(s) == IF IsNegative(s) THEN 0 - NatOf(Magnitude(s)) ELSE NatOf(Magnitude(s))

\* C1 (as stated): on an unchanged commit every decimal revision n yields
\* n + 1, and on a changed commit no increment is computed.
C1_EveryIntegerIncremented ==
    Transformed =>
        /\ (SameCommit /\ IsDecimalInteger(previousSpec.Revision))
              => out.rebuilt.Revision = NextDecimal(previousSpec.Revision)
        /\ OtherCommit => out.rebuilt.Revision = previousSpec.Revision

\* C1 (amended): on an unchanged commit a decimal revision n that fits the
\* int of the build and lies below its maximum yields n + 1; on a changed
\* commit no increment is computed and the specification is reported stale.
C1_NextRevision ==
    Transformed =>
        /\ (/\ SameCommit
            /\ IsDecimalInteger(previousSpec.Revision)
            /\ FitsBelowMax(previousSpec.Revision, intSize))
              => /\ out.rebuilt.Revision = NextDecimal(previousSpec.Revision)
                 /\ ~out.rebuilt.ret
                 /\ Len(previousSpec.Revision) <= 9
                       => IntOf(out.rebuilt.Revision) = IntOf(previousSpec.Revision) + 1
        /\ OtherCommit
              => /\ out.rebuilt.Revision = previousSpec.Revision
                 /\ out.rebuilt.ret

C1_Witness ==
    /\ Transformed
    /\ SameCommit
    /\ previousSpec = PreviousDalecSpec("abc", "3")
    /\ out.rebuilt.Revision = "4"

\* C2: with the metadata present, the specification returned does not
\* depend on the previous specification: two calls that differ in nothing
\* but the previous specification return the same specification.
C2_RevisionNeverFedBack ==
    (phase = "again" /\ repoInfo # Nil) =>
        /\ ~out.panic /\ ~out2.panic
        /\ out2.spec = out.spec
        /\ out2.spec["args"]["REVISION"] = out.spec["args"]["REVISION"]
        /\ out2.spec["revision"] = out.spec["revision"]

C2_Witness ==
    /\ phase = "again"
    /\ repoInfo # Nil
    /\ previousSpec = PreviousDalecSpec("abc", "3")
    /\ previousSpec2 = PreviousDalecSpec("def", "3")
    /\ out.rebuilt.Revision = "4"
    /\ out2.rebuilt.Revision = "3"
    /\ out2.spec = out.spec

\* C3: a call with nil metadata returns a specification, whatever the
\* previous specification records.
C3_NilMetadataReturns ==
    (Transformed /\ repoInfo = Nil) => (~out.panic /\ DOMAIN out.spec # {})

\* TransformToDalec returned a specification
Produced == Transformed /\ ~out.panic

Stages == Deref(dockerInfo).Stages

RepoNameSet == repoInfo # Nil /\ Deref(repoInfo).RepoName # ""

ZeroStages == dockerInfo # Nil /\ Len(Stages) = 0

IsEmptySection(section) == DOMAIN section = {}

\* args, name and the metadata fields of a build file without stages
WellFormedHead ==
    /\ DOMAIN out.spec["args"] = {"REVISION", "VERSION", "COMMIT", "TARGETARCH", "TARGETOS"}
    /\ out.spec["args"]["REVISION"] # ""
    /\ out.spec["args"]["VERSION"] # ""
    /\ out.spec["name"] = (IF RepoNameSet THEN ToLower(Deref(repoInfo).RepoName) ELSE "package")
    /\ {"packager", "vendor", "license", "website", "description", "version", "revision"}
           \subseteq DOMAIN out.spec
    /\ out.spec["version"] = "${VERSION}"
    /\ out.spec["revision"] = "${REVISION}"

\* C4 (as stated): a build file without stages yields empty sources,
\* dependencies, targets, build, artifacts and image sections and a
\* well-formed args, name and metadata part.
C4_ZeroStagesAllEmpty ==
    (Produced /\ ZeroStages) =>
        /\ IsEmptySection(out.spec["sources"])
        /\ IsEmptySection(out.spec["dependencies"])
        /\ IsEmptySection(out.spec["targets"])
        /\ IsEmptySection(out.spec["build"])
        /\ IsEmptySection(out.spec["artifacts"])
        /\ IsEmptySection(out.spec["image"])
        /\ WellFormedHead

\* C4 (amended): a build file without stages yields empty dependencies,
\* targets, artifacts and image sections; sources holds the one fallback
\* entry (keyed by the repository name, else "source") with the metadata
\* url and the commit placeholder; build holds only the base VERSION
\* environment entry and no steps; args, name and metadata are well-formed.
C4_ZeroStages ==
    (Produced /\ ZeroStages) =>
        LET key == IF RepoNameSet THEN Deref(repoInfo).RepoName ELSE "source"
            url == IF repoInfo # Nil THEN Deref(repoInfo).GitURL ELSE ""
        IN /\ DOMAIN out.spec["sources"] = {key}
           /\ out.spec["sources"][key] = [git |-> [url |-> url, commit |-> "${COMMIT}"]]
           /\ out.spec["build"] = [env |-> [VERSION |-> "${VERSION}"]]
           /\ IsEmptySection(out.spec["dependencies"])
           /\ IsEmptySection(out.spec["targets"])
           /\ IsEmptySection(out.spec["artifacts"])
           /\ IsEmptySection(out.spec["image"])
           /\ WellFormedHead

C4_Witness ==
    /\ Produced
    /\ ZeroStages
    /\ ~RepoNameSet
    /\ DOMAIN out.spec["sources"] = {"source"}
    /\ DOMAIN out.spec["build"] = {"env"}

\* the instruction the i-th processed node is dispatched as
Instruction(i) == trace[i].instruction

\* the number of FROM instructions among the first i processed nodes: the
\* stage that is current once the i-th node is processed
StageAt(i) == Cardinality({j \in 1..i : Instruction(j) = "FROM"})

ArgDeclarations == {i \in 1..Len(trace) : Instruction(i) = "ARG"}

DeclaredKey(i) == parseKeyValue(trace[i].node.Next)[1]
DeclaredValue(i) == parseKeyValue(trace[i].node.Next)[2]

\* m maps exactly the keys the declarations of decls declare, each to the
\* value of its last declaration
LastWriteWins(m, decls) ==
    /\ DOMAIN m = {DeclaredKey(i) : i \in decls}
    /\ \A i \in decls :
           (\A j \in decls : DeclaredKey(j) = DeclaredKey(i) => j <= i)
               => m[DeclaredKey(i)] = DeclaredValue(i)

\* C5: globalArgs holds for every key the value of the last ARG declaring
\* it, and the args of every stage hold for every key the value of the last
\* ARG declaring it while that stage was current.
C5_ArgLastWriteWins ==
    /\ LastWriteWins(info.Args, ArgDeclarations)
    /\ \A n \in 1..Len(info.Stages) :
           LastWriteWins(info.Stages[n].Args, {i \in ArgDeclarations : StageAt(i) = n})

C5_Witness ==
    /\ Len(trace) = 3
    /\ trace[1].node.Next = <<"FOO=1">>
    /\ Instruction(2) = "FROM"
    /\ trace[3].node.Next = <<"FOO=2">>
    /\ info.Args["FOO"] = "2"
    /\ info.Stages[1].Args["FOO"] = "2"

\* the node of the n-th FROM processed
FromNode(n) ==
    trace[CHOOSE i \in 1..Len(trace) : Instruction(i) = "FROM" /\ StageAt(i) = n].node

HasAsClause(node) == Len(node.Next) >= 3 /\ node.Next[2] \in {"AS", "As", "aS", "as"}

PlatformFlag(flags) ==
    LET at == {i \in 1..Len(flags) : HasPrefix(flags[i], "--platform=")}
    IN IF at = {} THEN ""
       ELSE SubSeq(flags[CHOOSE i \in at : \A j \in at : j <= i], Len("--platform=") + 1,
                   Len(flags[CHOOSE i \in at : \A j \in at : j <= i]))

\* name holds the letters b, u, i, l, d in a row, in either case
HoldsBuild(name) ==
    \E o \in 0..(Len(name) - 5) :
        \A j \in 1..5 : CharAt(name, o + j) \in {CharAt("build", j), CharAt("BUILD", j)}

\* C6: the n-th FROM yields the n-th stage: its baseRef is the first
\* argument, its name the identifier after a case-insensitive AS (empty
\* without an AS clause), its platform the value of the --platform= flag,
\* and it is a builder stage exactly when its case-folded name holds "build".
C6_FromYieldsStage ==
    /\ Len(info.Stages) = StageAt(Len(trace))
    /\ \A n \in 1..Len(info.Stages) :
           LET node == FromNode(n)
               stage == info.Stages[n]
           IN /\ stage.From = (IF Len(node.Next) >= 1 THEN node.Next[1] ELSE "")
              /\ stage.Name = (IF HasAsClause(node) THEN node.Next[3] ELSE "")
              /\ stage.Platform = PlatformFlag(node.Flags)
              /\ isBuilderStage(stage) <=> HoldsBuild(stage.Name)

C6_Witness ==
    /\ Len(info.Stages) = 2
    /\ FromNode(1).Next = <<"golang:1.21", "AS", "builder">>
    /\ info.Stages[1].Name = "builder"
    /\ info.Stages[1].From = "golang:1.21"
    /\ info.Stages[1].Platform = "linux/amd64"
    /\ isBuilderStage(info.Stages[1])
    /\ FromNode(2).Next = <<"alpine", "as", "Build-Env">>
    /\ info.Stages[2].Name = "Build-Env"
    /\ isBuilderStage(info.Stages[2])

\* the name of the first builder stage, "builder" when there is none
ResolvedBuilderName ==
    LET builders == {i \in 1..Len(Stages) : isBuilderStage(Stages[i])}
    IN IF builders = {} THEN "builder"
       ELSE Stages[CHOOSE i \in builders : \A j \in builders : i <= j].Name

IsBinaryPath(path) == Contains(path, "/bin/") \/ HasSuffix(path, ".exe")

ExpectedBinaries ==
    UNION {UNION {{Stages[i].Copies[j].Source[k] :
                      k \in {k \in 1..Len(Stages[i].Copies[j].Source) :
                                IsBinaryPath(Stages[i].Copies[j].Source[k])}} :
                  j \in {j \in 1..Len(Stages[i].Copies) :
                            Stages[i].Copies[j].From \in {ResolvedBuilderName, "builder"}}} :
           i \in {i \in 1..Len(Stages) : ~isBuilderStage(Stages[i])}}

Binaries ==
    IF "binaries" \in DOMAIN out.spec["artifacts"]
    THEN out.spec["artifacts"]["binaries"] ELSE EmptyMap

\* C7: the binaries of the artifacts section are keyed by exactly the
\* binary source paths of the copies, in non-builder stages, from the
\* resolved builder stage or from "builder".
C7_ArtifactsAreBuilderBinaries ==
    (Produced /\ dockerInfo # Nil) =>
        /\ DOMAIN Binaries = ExpectedBinaries
        /\ DOMAIN out.spec["artifacts"] \subseteq {"binaries"}
        /\ \A path \in DOMAIN Binaries : IsEmptySection(Binaries[path])

C7_Witness ==
    /\ Produced
    /\ dockerInfo # Nil
    /\ Len(Stages) = 2
    /\ Stages[1].Name = "builder"
    /\ Stages[2].Copies = <<[Type |-> "COPY", From |-> "builder",
                             Source |-> <<"/app/bin/app">>, Dest |-> "/usr/local/bin/app"]>>
    /\ DOMAIN Binaries = {"/app/bin/app"}

\* the stage the image section is taken from: the last stage that is not
\* named "windows" or "hpc" and has an entrypoint or a copy instruction
ImageStages ==
    {i \in 1..Len(Stages) :
        /\ Stages[i].Name \notin {"windows", "hpc"}
        /\ (Len(Stages[i].Entrypoint) > 0 \/ Len(Stages[i].Copies) > 0)}

FinalStage == Stages[CHOOSE i \in ImageStages : \A j \in ImageStages : j <= i]

Symlinks ==
    IF "post" \in DOMAIN out.spec["image"]
    THEN out.spec["image"]["post"]["symlinks"] ELSE EmptyMap

\* the path the source src of copy ends up at
CopiedTo(copy, src) ==
    IF HasSuffix(copy.Dest, "/") THEN copy.Dest \o Base(src) ELSE copy.Dest

IsBinaryCopy(copy, src) ==
    /\ copy.From = "builder" \/ Contains(copy.From, "build")
    /\ \E k \in 1..Len(copy.Source) : copy.Source[k] = src
    /\ Contains(src, "/bin/")
    /\ CopiedTo(copy, src) # "/usr/bin/" \o Base(src)

\* C8: COPY --from=builder /app/bin/app /usr/local/bin/app in the final
\* stage yields the symlink /usr/bin/app -> /usr/local/bin/app; in general
\* the symlink entry /usr/bin/<base name> of a binary copied from a
\* builder-like stage has as its path the path the binary is copied to.
C8_SymlinkToDestination ==
    (Produced /\ dockerInfo # Nil /\ ImageStages # {}) =>
        /\ (\E j \in 1..Len(FinalStage.Copies) :
               /\ FinalStage.Copies[j].From = "builder"
               /\ FinalStage.Copies[j].Source = <<"/app/bin/app">>
               /\ FinalStage.Copies[j].Dest = "/usr/local/bin/app")
              => /\ "/usr/bin/app" \in DOMAIN Symlinks
                 /\ Symlinks["/usr/bin/app"] = [path |-> "/usr/local/bin/app"]
        /\ \A j \in 1..Len(FinalStage.Copies) :
               \A k \in 1..Len(FinalStage.Copies[j].Source) :
                   LET copy == FinalStage.Copies[j]
                       src == copy.Source[k]
                       link == "/usr/bin/" \o Base(src)
                   IN (IsBinaryCopy(copy, src) /\ link \in DOMAIN Symlinks)
                          => \E j2 \in 1..Len(FinalStage.Copies) :
                                 \E k2 \in 1..Len(FinalStage.Copies[j2].Source) :
                                     /\ IsBinaryCopy(FinalStage.Copies[j2],
                                                     FinalStage.Copies[j2].Source[k2])
                                     /\ Base(FinalStage.Copies[j2].Source[k2]) = Base(src)
                                     /\ Symlinks[link].path =
                                            CopiedTo(FinalStage.Copies[j2],
                                                     FinalStage.Copies[j2].Source[k2])

\* a stage name that names the package
IsMeaningfulName(name) ==
    /\ name # ""
    /\ name \notin {"builder", "build"}
    /\ name \notin {"linux", "windows"}

MeaningfulStages ==
    IF dockerInfo = Nil THEN {}
    ELSE {i \in 1..Len(Stages) : IsMeaningfulName(Stages[i].Name)}

\* the sources under a binary directory of the copies from "builder"
BuilderBinarySources ==
    IF dockerInfo = Nil THEN {}
    ELSE UNION {UNION {{Stages[i].Copies[j].Source[k] :
                           k \in {k \in 1..Len(Stages[i].Copies[j].Source) :
                                     Contains(Stages[i].Copies[j].Source[k], "/bin/")}} :
                       j \in {j \in 1..Len(Stages[i].Copies) :
                                 Stages[i].Copies[j].From = "builder"}} :
                i \in 1..Len(Stages)}

NameOfBinary(path) == ToLower(TrimSuffix(Base(path), ".exe"))

NamedBinarySources == {path \in BuilderBinarySources : NameOfBinary(path) # ""}

C10_Deterministic ==
    /\ []((phase = "again" /\ previousSpec2 = previousSpec) => out2 = out)
    /\ [][(phase \in {"parsed", "transformed"}) => (dockerInfo' = dockerInfo)]_vars

C10_Witness ==
    /\ phase = "again"
    /\ previousSpec2 = previousSpec
    /\ ~out.panic
    /\ dockerInfo # Nil
    /\ \E i \in 1..Len(Stages) :
           isBuilderStage(Stages[i]) /\ Cardinality(DOMAIN Stages[i].Env) > 1
    /\ out2 = out

\* the keys every produced specification is said to hold
SectionKeys ==
    {"args", "name", "license", "website", "description", "version", "revision",
     "sources", "dependencies", "targets", "build", "artifacts", "image", "tests"}

\* C11: every specification TransformToDalec returns holds every section
\* key, also when no build file was supplied (nil DockerfileInfo) and when
\* the metadata fields are empty.
C11_NoAbsentKeys ==
    Produced => (SectionKeys \subseteq DOMAIN out.spec)

\* fetchPreviousYAMLInfo has returned
Fetched == fetched.branch # "none"

\* C12: when nothing exists at the output path, fetchPreviousYAMLInfo takes
\* its not-found branch and returns the empty previous specification and
\* no error, and TransformToDalec is then called on that specification.
C12_MissingFileIsAbsent ==
    /\ (Fetched /\ outputFile.kind = "missing")
           => /\ fetched.branch = "not found"
              /\ fetched.err = NoError
              /\ previousSpec = PreviousDalecSpec("", "")
    /\ (Transformed /\ outputFile.kind = "missing") => fetched.err = NoError

\* a run command of the stage holds a toolchain signature
UsesLanguageToolchain(stage) ==
    \E i \in 1..Len(stage.Runs) :
        \/ \E k \in 1..(Len(stage.Runs[i]) - 7) : SubSeq(stage.Runs[i], k, k + 7) = "go build"
        \/ \E k \in 1..(Len(stage.Runs[i]) - 5) : SubSeq(stage.Runs[i], k, k + 5) = "go mod"

ToolchainStages == {i \in 1..Len(Stages) : UsesLanguageToolchain(Stages[i])}

Builders == {i \in 1..Len(Stages) : isBuilderStage(Stages[i])}

FirstBuilder == CHOOSE i \in Builders : \A j \in Builders : i <= j

\* C13: the stage the sources entry is taken from carries the module
\* generation marker exactly when one of its run commands contains
\* "go build" or "go mod", and whenever some stage, builder or not, has such
\* a run command the dependencies section is a build set holding msft-golang
\* and nothing else.
C13_ToolchainFeedsDependencies ==
    (Produced /\ dockerInfo # Nil) =>
        /\ \A name \in DOMAIN out.spec["sources"] :
               Has(out.spec["sources"][name], "generate")
                   <=> /\ Builders # {}
                       /\ FirstBuilder \in ToolchainStages
        /\ ToolchainStages # {} =>
               /\ DOMAIN out.spec["dependencies"] = {"build"}
               /\ DOMAIN out.spec["dependencies"]["build"] = {"msft-golang"}

C13_Witness ==
    /\ Produced
    /\ dockerInfo # Nil
    /\ ToolchainStages # {}
    /\ \A i \in ToolchainStages :
           /\ ~isBuilderStage(Stages[i])
           /\ Stages[i].From = "alpine"
    /\ DOMAIN out.spec["dependencies"]["build"] = {"msft-golang"}

\* MinInt <= n <= MaxInt for the integer n the numeral s denotes
FitsInt(s, size) ==
    IF IsNegative(s) THEN MagLeq(Magnitude(s), MinIntMag(size))
    ELSE MagLeq(Magnitude(s), MaxIntMag(size))

\* s does not parse as an int of the build
NotParseable(s, size) == ~IsDecimalInteger(s) \/ ~FitsInt(s, size)

\* the revision argument of a specification generated from the build file alone
FreshRevision ==
    IF dockerInfo # Nil
       /\ Has(Deref(dockerInfo).Args, "REVISION")
       /\ Deref(dockerInfo).Args["REVISION"] # ""
    THEN Deref(dockerInfo).Args["REVISION"]
    ELSE "1"

\* the specification the same inputs give when no previous specification exists
FreshSpecs ==
    {TransformToDalec(repoInfo, PreviousDalecSpec("", ""), dockerInfo, order, intSize).spec :
         order \in EnvOrders(dockerInfo)}

\* C14: on an unchanged commit with a previous revision that does not parse
\* as an integer, the reconciler computes no increment and does not fault,
\* and the transformation returns the whole specification a run without
\* previous specification returns, its revision being the generated default.
C14_ParseFaultRecovered ==
    (Transformed /\ SameCommit /\ NotParseable(previousSpec.Revision, intSize)) =>
        /\ ~out.panic
        /\ ~out.rebuilt.ret
        /\ out.rebuilt.Revision = previousSpec.Revision
        /\ out.spec \in FreshSpecs
        /\ out.spec["revision"] = "${REVISION}"
        /\ out.spec["args"]["REVISION"] = FreshRevision

C14_Witness ==
    /\ Transformed
    /\ SameCommit
    /\ previousSpec.Revision = "${REVISION}"
    /\ dockerInfo = Ptr(ParseDockerfile(<<>>))
    /\ ~out.panic
    /\ out.rebuilt.Revision = "${REVISION}"
    /\ SectionKeys \subseteq DOMAIN out.spec
    /\ out.spec["args"]["REVISION"] = "1"

\* C15: after Set(spec, path, v), Get(spec, path) returns v and no error,
\* for every document, path and value.
C15_SetGetRoundTrip ==
    access.op = "Get" =>
        /\ access.err = NoError
        /\ access.result.type = access.value.type
        /\ access.result.val = access.value.val

\* C16: a step of model building changes no stage but the last one, and a
\* step that starts a new stage changes no existing stage at all: every
\* stage before the last is frozen.
C16_PriorStagesFrozen ==
    [][\A i \in 1..Len(info.Stages) :
           ((i < Len(info.Stages)) \/ (Len(info'.Stages) # Len(info.Stages)))
               => (/\ i <= Len(info'.Stages)
                   /\ info'.Stages[i] = info.Stages[i])]_vars

C16_Witness ==
    /\ Len(trace) = 3
    /\ trace[1].instruction = "FROM"
    /\ trace[2].instruction = "FROM"
    /\ trace[3].instruction \in {"RUN", "COPY", "ENV", "ARG"}
    /\ info.Stages[1] = parseFromInstruction(trace[1].node)
    /\ info.Stages[2] # parseFromInstruction(trace[2].node)

\* what a FROM instruction fixes of its stage
StageHead(stage) == <<stage.From, stage.Name, stage.Platform>>

StageHeads(stages) == [n \in 1..Len(stages) |-> StageHead(stages[n])]

\* the step processes a FROM instruction
FromStep == Len(trace') = Len(trace) + 1 /\ trace'[Len(trace')].instruction = "FROM"

\* C17: there are as many stages as FROM instructions processed, the i-th
\* stage is the one the i-th FROM created, and the stage current after every
\* instruction is the one the last FROM before it appended; a FROM appends
\* one stage at the end and leaves the others in place, and no other
\* instruction adds, removes or reorders stages or changes the current one.
C17_StageOrder ==
    /\ [](/\ Len(info.Stages) = StageAt(Len(trace))
          /\ currentStage = Len(info.Stages)
          /\ \A i \in 1..Len(trace) : trace[i].stage = StageAt(i)
          /\ \A n \in 1..Len(info.Stages) :
                 StageHead(info.Stages[n]) = StageHead(parseFromInstruction(FromNode(n))))
    /\ [][IF FromStep
          THEN /\ Len(info'.Stages) = Len(info.Stages) + 1
               /\ SubSeq(info'.Stages, 1, Len(info.Stages)) = info.Stages
               /\ currentStage' = Len(info'.Stages)
          ELSE /\ StageHeads(info'.Stages) = StageHeads(info.Stages)
               /\ currentStage' = currentStage]_vars

C17_Witness ==
    /\ Len(trace) = 3
    /\ trace[1].instruction = "FROM"
    /\ trace[2].instruction = "RUN"
    /\ trace[3].instruction = "FROM"
    /\ trace[2].stage = 1
    /\ Len(info.Stages) = 2
    /\ info.Stages[1].From = "scratch"
    /\ info.Stages[2].From = "golang:1.21"
    /\ currentStage = 2

\* the node a step of the walk processes
Processed == trace'[Len(trace')].node

\* the step processes a COPY or ADD instruction
CopyStep ==
    /\ Len(trace') = Len(trace) + 1
    /\ trace'[Len(trace')].instruction \in {"COPY", "ADD"}

\* the value of the last --from= flag, empty without one
FromFlag(flags) ==
    LET at == {i \in 1..Len(flags) : Len(flags[i]) >= 7 /\ SubSeq(flags[i], 1, 7) = "--from="}
        last == CHOOSE i \in at : \A j \in at : j <= i
    IN IF at = {} THEN "" ELSE SubSeq(flags[last], 8, Len(flags[last]))

\* C18: a COPY or ADD with positional arguments a1..an, n >= 1, processed
\* in an open stage appends to that stage one CopyInstruction whose dest is
\* an, whose sources are a1..a(n-1) in order, whose kind is the instruction
\* name and whose fromStage is the value of the --from= flag, empty without
\* one; the flags are not among the arguments.
C18_CopyArgumentSplit ==
    [][(CopyStep /\ currentStage # 0 /\ Len(Processed.Next) >= 1) =>
           LET args == Processed.Next
               n == Len(args)
           IN info'.Stages[currentStage].Copies =
                  Append(info.Stages[currentStage].Copies,
                         [Type   |-> IF Processed.Value \in {"ADD", "add", "Add"}
                                     THEN "ADD" ELSE "COPY",
                          From   |-> FromFlag(Processed.Flags),
                          Source |-> [i \in 1..(n - 1) |-> args[i]],
                          Dest   |-> args[n]])]_vars

C18_Witness ==
    /\ Len(trace) = 2
    /\ trace[1].instruction = "FROM"
    /\ trace[2].node.Value = "ADD"
    /\ trace[2].node.Flags = <<"--chown=1", "--from=build">>
    /\ info.Stages[1].Copies =
           <<[Type |-> "ADD", From |-> "build", Source |-> <<"go.mod", "go.sum">>,
              Dest |-> "/src/"]>>

\* C19 (as stated): every CopyInstruction recorded in a stage has at least
\* one source path, whatever instructions were processed.
C19_CopyHasSource ==
    \A n \in 1..Len(info.Stages) :
        \A k \in 1..Len(info.Stages[n].Copies) :
            Len(info.Stages[n].Copies[k].Source) >= 1

\* C19 (amended): the CopyInstruction a COPY or ADD records in an open stage
\* has at least one source path when the instruction has two positional
\* arguments or more, and has no source path and the argument as its dest
\* when the instruction has exactly one.
C19_CopySourcesByArguments ==
    [][(CopyStep /\ currentStage # 0 /\ Len(Processed.Next) >= 1) =>
           LET old == info.Stages[currentStage].Copies
               new == info'.Stages[currentStage].Copies
           IN /\ Len(new) = Len(old) + 1
              /\ Len(Processed.Next) >= 2 => Len(new[Len(new)].Source) >= 1
              /\ Len(Processed.Next) = 1 =>
                     /\ new[Len(new)].Source = <<>>
                     /\ new[Len(new)].Dest = Processed.Next[1]]_vars

C19_Witness ==
    /\ Len(trace) = 3
    /\ trace[1].instruction = "FROM"
    /\ trace[2].node.Next = <<"only">>
    /\ trace[3].node.Next = <<"go.mod", "go.sum", "/src/">>
    /\ info.Stages[1].Copies[1] =
           [Type |-> "ADD", From |-> "", Source |-> <<>>, Dest |-> "only"]
    /\ Len(info.Stages[1].Copies[2].Source) = 2

\* C20: a COPY or ADD without positional argument, processed in an open
\* stage, leaves the copy instructions of that stage as they are, and the
\* walk goes on.
C20_MalformedCopySkipped ==
    [][(CopyStep /\ currentStage # 0 /\ Len(Processed.Next) = 0) =>
           /\ info'.Stages[currentStage].Copies = info.Stages[currentStage].Copies
           /\ phase' = "parsing"]_vars

\* the arguments joined by single spaces
RECURSIVE SpaceJoined(_)
SpaceJoined(args) ==
    IF args = <<>> THEN ""
    ELSE IF Len(args) = 1 THEN args[1]
    ELSE SpaceJoined(SubSeq(args, 1, Len(args) - 1)) \o " " \o args[Len(args)]

\* the value an ENTRYPOINT or CMD node gives the field of its stage
CommandForm(node) ==
    IF node.json THEN [i \in 1..Len(node.Next) |-> node.Next[i]]
    ELSE IF SpaceJoined(node.Next) # "" THEN <<"/bin/sh", "-c", SpaceJoined(node.Next)>>
    ELSE <<>>

\* the step processes an instruction of the given name
StepOf(name) ==
    /\ Len(trace') = Len(trace) + 1
    /\ trace'[Len(trace')].instruction = name

\* C21: an ENTRYPOINT (CMD) processed in an open stage sets the entrypoint
\* (cmd) of that stage, whatever it held, to the argument chain for a
\* JSON-form node, to <<"/bin/sh", "-c", arguments joined by spaces>> for a
\* shell-form node with a non-empty command, and to no value for a
\* shell-form node with an empty command; it leaves the other field alone.
C21_CommandForms ==
    [][/\ (StepOf("ENTRYPOINT") /\ currentStage # 0) =>
              /\ info'.Stages[currentStage].Entrypoint = CommandForm(Processed)
              /\ info'.Stages[currentStage].Cmd = info.Stages[currentStage].Cmd
       /\ (StepOf("CMD") /\ currentStage # 0) =>
              /\ info'.Stages[currentStage].Cmd = CommandForm(Processed)
              /\ info'.Stages[currentStage].Entrypoint = info.Stages[currentStage].Entrypoint]_vars

C21_Witness ==
    /\ Len(trace) = 3
    /\ trace[1].instruction = "FROM"
    /\ trace[2].node = Node("ENTRYPOINT", <<>>, <<"/app", "-v">>, TRUE)
    /\ trace[3].node = Node("entrypoint", <<>>, <<"/app -v">>, FALSE)
    /\ info.Stages[1].Entrypoint = <<"/bin/sh", "-c", "/app -v">>

\* the step processes a node, whatever its instruction
ParseStep == Len(trace') = Len(trace) + 1

\* the node with its instruction name written in upper case
UpperCased(node) == [node EXCEPT !.Value = ToUpper(node.Value)]

\* C22: processing an instruction whose upper-cased name is not one of the
\* eleven recognized names leaves the stages, the global arguments, the labels
\* and the current stage unchanged and the walk goes on (no error); a node
\* with a recognized name has the effect of the same node written in upper
\* case, so a "from" in any letter case opens a stage.
C22_UnrecognizedIgnored ==
    [][ParseStep =>
          /\ phase' = "parsing"
          /\ (trace'[Len(trace')].instruction \notin Recognized)
                 => (info' = info /\ currentStage' = currentStage)
          /\ (trace'[Len(trace')].instruction \in Recognized)
                 => LET b == ParseNode([info |-> info, currentStage |-> currentStage],
                                       UpperCased(Processed))
                    IN info' = b.info /\ currentStage' = b.currentStage
          /\ StepOf("FROM")
                 => (Len(info'.Stages) = Len(info.Stages) + 1
                     /\ currentStage' = Len(info'.Stages))]_vars

C22_Witness ==
    /\ Len(trace) = 3
    /\ trace[1].node.Value = "from"
    /\ trace[2].node.Value = "healthcheck"
    /\ trace[3].node.Value = "env"
    /\ Len(info.Stages) = 1
    /\ info.Stages[1].Name = "Build-Env"
    /\ info.Stages[1].Env = Put(EmptyMap, "FOO", "env")
    /\ currentStage = 1

StageScoped == {"ENV", "WORKDIR", "RUN", "COPY", "ADD", "ENTRYPOINT", "CMD", "EXPOSE"}

\* C23: a stage-scoped instruction processed while no stage is open leaves
\* the whole DockerfileInfo unchanged and opens no stage; an ENV never
\* changes the global arguments or the labels, whether a stage is open or
\* not; an ARG or a LABEL processed before the first FROM is recorded in the
\* global arguments, resp. the labels.
C23_StageScopedNeedStage ==
    [][ParseStep =>
          /\ (trace'[Len(trace')].instruction \in StageScoped /\ currentStage = 0)
                 => (info' = info /\ currentStage' = 0)
          /\ StepOf("ENV")
                 => (info'.Args = info.Args /\ info'.Labels = info.Labels
                     /\ Len(info'.Stages) = Len(info.Stages))
          /\ (StepOf("ARG") /\ currentStage = 0)
                 => LET kv == parseKeyValue(Processed.Next)
                    IN /\ Has(info'.Args, kv[1])
                       /\ info'.Args[kv[1]] = kv[2]
                       /\ info'.Stages = <<>>
          /\ (StepOf("LABEL") /\ currentStage = 0)
                 => LET kv == parseKeyValue(Processed.Next)
                    IN /\ Has(info'.Labels, kv[1])
                       /\ info'.Stages = <<>>]_vars

C23_Witness ==
    /\ Len(trace) = 3
    /\ trace[1].instruction = "ENV"
    /\ trace[2].instruction = "ARG"
    /\ trace[3].instruction = "LABEL"
    /\ info.Stages = <<>>
    /\ info.Args = Put(EmptyMap, "FOO", "1")
    /\ info.Labels = Put(EmptyMap, "maintainer", "me")
    /\ currentStage = 0

\* the value a global ARG declaration of the name gives, "" without one
DeclaredGlobalArg(name) ==
    IF dockerInfo # Nil /\ Has(Deref(dockerInfo).Args, name)
    THEN Deref(dockerInfo).Args[name] ELSE ""

\* the metadata reports a commit
MetadataCommit == repoInfo # Nil /\ Deref(repoInfo).Commit # ""

\* C24: args.COMMIT is the commit of the repository metadata whenever the
\* metadata is present with a non-empty commit, otherwise the value of the
\* declared global argument COMMIT, and "" when neither exists; args always
\* holds REVISION, VERSION, TARGETARCH and TARGETOS too.
C24_CommitPrecedence ==
    Produced =>
        /\ {"REVISION", "VERSION", "COMMIT", "TARGETARCH", "TARGETOS"}
               \subseteq DOMAIN out.spec["args"]
        /\ out.spec["args"]["COMMIT"] = IF MetadataCommit THEN Deref(repoInfo).Commit
                                        ELSE DeclaredGlobalArg("COMMIT")

\* C25: the targets section of a specification produced from a build file
\* is non-empty exactly when some stage has a run command containing
\* "go build" or "go mod"; it then holds the one target azlinux3, whose
\* runtime dependencies are openssl-libs, SymCrypt and SymCrypt-OpenSSL and
\* no others; a golang base image without such a run command leaves it
\* empty.
C25_TargetsFollowToolchain ==
    (Produced /\ dockerInfo # Nil) =>
        /\ ~IsEmptySection(out.spec["targets"]) <=> ToolchainStages # {}
        /\ ~IsEmptySection(out.spec["targets"]) =>
               /\ DOMAIN out.spec["targets"] = {"azlinux3"}
               /\ DOMAIN out.spec["targets"]["azlinux3"] = {"dependencies"}
               /\ DOMAIN out.spec["targets"]["azlinux3"]["dependencies"] = {"runtime"}
               /\ DOMAIN out.spec["targets"]["azlinux3"]["dependencies"]["runtime"]
                      = {"openssl-libs", "SymCrypt", "SymCrypt-OpenSSL"}

C25_Witness ==
    /\ Produced
    /\ dockerInfo # Nil
    /\ Len(Stages) = 2
    /\ Stages[1].From = "golang:1.21"
    /\ ToolchainStages = {}
    /\ IsEmptySection(out.spec["targets"])
    /\ ~IsEmptySection(out.spec["dependencies"])

\* the names extractBuildSteps leaves to the args section
ExcludedEnv == {"OS", "ARCH", "VERSION"}

\* the environment of the build section, empty when the section has none
BuildEnv == IF Has(out.spec["build"], "env") THEN out.spec["build"]["env"] ELSE EmptyMap

\* C26: every variable k a builder stage declares with value v, k not being
\* OS, ARCH or VERSION and no other builder stage declaring k, has
\* build.env[k] = v, also when k is one of the toolchain variables GOPROXY,
\* GOEXPERIMENT, CGO_ENABLED; build.env[VERSION] is always "${VERSION}".
C26_StageEnvOverrides ==
    (Produced /\ dockerInfo # Nil) =>
        /\ Has(BuildEnv, "VERSION")
        /\ BuildEnv["VERSION"] = "${VERSION}"
        /\ \A i \in Builders : \A k \in DOMAIN Stages[i].Env :
               (/\ k \notin ExcludedEnv
                /\ \A j \in Builders \ {i} : k \notin DOMAIN Stages[j].Env)
               => (Has(BuildEnv, k) /\ BuildEnv[k] = Stages[i].Env[k])

\* the substrings that mark a run command as a package installation
InstallSubstrings == {"apt-get", "yum install", "tdnf install"}

\* the run commands of a stage that hold none of these substrings, in order
Remaining(stage) ==
    SelectSeq(stage.Runs, LAMBDA run : \A sub \in InstallSubstrings : ~Contains(run, sub))

\* the lines, each followed by a newline except the last
RECURSIVE Lines(_)
Lines(commands) ==
    IF Len(commands) = 1 THEN commands[1]
    ELSE commands[1] \o "\n" \o Lines(Tail(commands))

\* one of the commands changes into the directory
ChangesInto(commands, dir) ==
    \E n \in 1..Len(commands) : Contains(commands[n], "cd " \o dir)

\* the command of the step of a builder stage with remaining commands
ExpectedCommand(stage) ==
    IF stage.Workdir # "" /\ ~ChangesInto(Remaining(stage), stage.Workdir)
    THEN "cd " \o stage.Workdir \o "\n" \o Lines(Remaining(stage))
    ELSE Lines(Remaining(stage))

\* the builder stages that contribute a step, in declaration order
SteppingStages ==
    SelectSeq([i \in 1..Len(Stages) |-> i],
              LAMBDA i : isBuilderStage(Stages[i]) /\ Remaining(Stages[i]) # <<>>)

\* the steps of the build section, none when the section has no such key
BuildSteps == IF Has(out.spec["build"], "steps") THEN out.spec["build"]["steps"] ELSE <<>>

\* C27: build.steps holds, in declaration order, one step for every builder
\* stage that has a run command without a package-installation substring;
\* its command is those run commands joined by newlines, preceded by the
\* line "cd <workdir>" exactly when the stage declares a working directory
\* and none of those commands changes into that directory; other stages
\* contribute no step.
C27_BuildSteps ==
    (Produced /\ dockerInfo # Nil) =>
        /\ Len(BuildSteps) = Len(SteppingStages)
        /\ \A n \in 1..Len(SteppingStages) :
               BuildSteps[n] = [command |-> ExpectedCommand(Stages[SteppingStages[n]])]

\* the form parseCommandArray gives a shell-form command
IsShellWrapped(command) ==
    Len(command) = 3 /\ command[1] = "/bin/sh" /\ command[2] = "-c"

\* C28: the image section is taken from the last stage, in declaration
\* order, that is not named "windows" or "hpc" and has an entrypoint or a
\* copy instruction, and is empty when there is no such stage; when that
\* stage has an entrypoint, image.entrypoint is its third element if the
\* entrypoint is the three-element shell-wrapped form and its first element
\* otherwise; when it has none, image has no entrypoint key.
C28_ImageFromFinalStage ==
    (Produced /\ dockerInfo # Nil) =>
        /\ ImageStages = {} => IsEmptySection(out.spec["image"])
        /\ ImageStages # {} =>
               IF Len(FinalStage.Entrypoint) > 0
               THEN /\ Has(out.spec["image"], "entrypoint")
                    /\ out.spec["image"]["entrypoint"] =
                           IF IsShellWrapped(FinalStage.Entrypoint)
                           THEN FinalStage.Entrypoint[3]
                           ELSE FinalStage.Entrypoint[1]
               ELSE ~Has(out.spec["image"], "entrypoint")

\* the base name of the working directory of the stage names a source
HasWorkdirName(stage) ==
    stage.Workdir # "" /\ Base(stage.Workdir) \notin {"", "/", "."}

\* the key the sources entry is to have
ExpectedSourceName ==
    IF RepoNameSet THEN Deref(repoInfo).RepoName
    ELSE IF Builders # {} /\ HasWorkdirName(Stages[FirstBuilder])
    THEN Base(Stages[FirstBuilder].Workdir)
    ELSE "source"

\* the URL the metadata gives, "" when it gives none
MetadataURL == IF repoInfo # Nil THEN Deref(repoInfo).GitURL ELSE ""

\* C29: for a build file with at least one stage the sources section has
\* exactly one entry; its key is the repository name when the metadata has
\* one, else the base name of the working directory of the first builder
\* stage, else "source"; its git value holds the metadata URL ("" when
\* unknown) and the commit "${COMMIT}"; the gomod generator is attached
\* exactly when there is a first builder stage and it has a run command
\* containing "go build" or "go mod".
C29_SourcesEntry ==
    (Produced /\ dockerInfo # Nil /\ Len(Stages) >= 1) =>
        /\ DOMAIN out.spec["sources"] = {ExpectedSourceName}
        /\ \A name \in DOMAIN out.spec["sources"] :
               LET source == out.spec["sources"][name]
               IN /\ source["git"] = [url |-> MetadataURL, commit |-> "${COMMIT}"]
                  /\ Has(source, "generate")
                         <=> (Builders # {} /\ FirstBuilder \in ToolchainStages)
                  /\ Has(source, "generate")
                         => source["generate"] = <<[gomod |-> EmptyMap]>>

====
